---- MODULE Spec2Model ----
(***************************************************************************)
(* Model of the audio-to-transcript pipeline of audio-transcriber:         *)
(*   src/src/transcription.py      TranscriptionEngine                     *)
(*   src/src/claude_integration.py RealTimeAnalyzer                        *)
(*                                                                         *)
(* Threads of the engine model: the host thread (the caller of start()     *)
(* and stop()), the audio thread (the caller of add_audio_chunk()), and    *)
(* one _transcription_loop thread per start() that spawned one.            *)
(* Each step of a thread is one access to shared state, followed by the    *)
(* thread-local computation up to its next access to shared state.         *)
(* Time is a discrete clock `now` that may advance between any two steps.  *)
(***************************************************************************)
EXTENDS Integers, Sequences, FiniteSets, TLC

(***************************************************************************)
(* Bounds of the model.                                                    *)
(***************************************************************************)
\* number of chunks the audio thread appends
MaxChunks == 2
\* greatest length, in bytes, of one audio chunk
MaxChunkLen == 2
\* number of start() calls that spawn a loop thread
MaxSessions == 2
\* last instant of the clock
MaxTime == 2
\* TranscriptionEngine(sample_rate=...): samples per second, scaled down
sample_rate == 2
\* TranscriptionEngine(buffer_duration=...): seconds between periodic drains, scaled down
buffer_duration == 1
\* RealTimeAnalyzer(analysis_interval=...): seconds between analyses, scaled down
analysis_interval == 1
\* number of audio devices of the machine
MaxDevices == 2
\* number of segments appended to the store while it is read
MaxSegs == 2
\* number of list objects self.segments refers to, one after the other
MaxLists == 2
\* number of segments in a store that is rendered
MaxExport == 2
\* the samples of one chunk read from the stream
chunk_size == 2
\* last instant of the clock of a session whose passes outlast the interval
MaxOutage == 3

(***************************************************************************)
(* Program constants.                                                      *)
(***************************************************************************)
\* _transcribe_audio(..., retry_count: int = 3)
retry_count == 3

\* None, where a text is expected
NoText == <<"None">>
\* None, where a time is expected
NoTime == -1
\* the host thread: the caller of start() and stop()
Host == 0
\* the audio thread, as owner of buffer_lock
Audio == -1
\* buffer_lock not held
Free == -2
\* the on_segment handler the host passes to start()
Handler == "on_segment"
\* the _transcription_loop threads, in the order start() spawns them
Loops == 1..MaxSessions
Threads == {Host} \cup Loops

\* characters of a transcription response
SP == " "
CH == "a"
\* the line separator of get_full_transcript
NL == "\n"
\* what str.strip() removes
Whitespace == {SP, NL}
\* what the host can pass to update_transcript
Transcripts == {<<>>, <<SP>>, <<CH>>}
\* what analyze_incremental can return: None, an empty text, an analysis
Analyses == {NoText, <<>>, <<"x">>, <<"y">>}
\* the index of no device: get_default_device() returns None, and so is
\* device_index when the caller names no device
NoDevice == -1
\* what the transcription service can return on success
Responses == {<<>>, <<SP>>, <<SP, CH, SP>>}

VARIABLES
    \* ---- TranscriptionEngine fields
    is_transcribing,
    audio_buffer,
    buffer_lock,
    transcription_thread,
    segments,
    callbacks,
    start_time,
    last_transcription_time,
    \* ---- environment
    now,
    appended,
    audio_pc,
    \* ---- per thread
    pc,
    current_time,
    audio_data,
    attempt,
    text,
    timestamp,
    \* ---- host: start() calls so far, the stop() in progress, and the number
    \* of chunks appended when the engine last became idle (NoTime once started)
    sessions,
    stop_mark,
    quiet_since,
    \* ---- history
    drains,
    submitted,
    dropped,
    pass,
    \* ---- RealTimeAnalyzer fields
    is_running,
    analysis_thread,
    current_transcript,
    last_analysis,
    last_analysis_time,
    analysis_callbacks,
    \* ---- per thread of the analyzer model
    an_pc,
    an_current_time,
    an_request,
    \* ---- history: how the last call of analyze_incremental by each thread ended,
    \* and the value of last_analysis it left
    an_tick,
    \* ---- host of the analyzer
    an_sessions,
    an_slow,
    \* ---- AudioCapture fields
    is_recording,
    stream,
    frames,
    audio_callbacks,
    recording_thread,
    \* ---- per thread of the capture model, and the last read of each thread
    rec_pc,
    rec_tick,
    \* ---- host of the capture
    cap_pc,
    cap_sessions,
    \* ---- the audio devices of the machine: maxInputChannels of each device, by
    \* index (from 0), and the index of the default input device
    device_info,
    default_input,
    \* ---- the last call of start_recording: its argument, the device it chose
    \* and how it ended
    start_call,
    \* ---- TranscriptionWorker: its running flag, and the segment_ready signals
    \* emitted and not yet delivered to the slot of the main window
    running,
    segment_ready,
    \* ---- the start sequence of a session: the device failure was reported
    start_error,
    \* ---- the list objects that are, or were, self.segments, and the one it
    \* refers to now
    lists,
    segments_ref,
    \* ---- the thread that appends: the list it has loaded (0: none), and the
    \* number of segments made so far
    ap_ref,
    made,
    \* ---- the thread that reads the store, and the contents the store had
    \* since its read began (history)
    rd,
    rd_seen,
    \* ---- the last call of get_full_transcript or export_transcript and what it
    \* returned or raised, and the file at the path given to export_transcript
    out,
    file,
    \* ---- the samples of the chunk read last, self.frames[-1], and the last
    \* call of get_audio_level with what it returned
    last_chunk,
    level,
    \* ---- when the oldest chunk now in audio_buffer was appended, and per thread
    \* the span of its last drain: from the oldest chunk taken to the drain (history)
    oldest,
    span,
    \* ---- how many chunks had been appended when the worker of the current
    \* recording began to run (history)
    epoch

engineVars == <<is_transcribing, audio_buffer, buffer_lock, transcription_thread,
                segments, callbacks, start_time, last_transcription_time>>
envVars == <<now, appended, audio_pc>>
threadVars == <<pc, current_time, audio_data, attempt, text, timestamp>>
hostVars == <<sessions, stop_mark, quiet_since>>
histVars == <<drains, submitted, dropped, pass>>
analyzerVars == <<is_running, analysis_thread, current_transcript, last_analysis,
                  last_analysis_time, analysis_callbacks>>
anThreadVars == <<an_pc, an_current_time, an_request, an_tick>>
anHostVars == <<an_sessions, an_slow>>
anVars == <<analyzerVars, anThreadVars, anHostVars>>
captureVars == <<is_recording, stream, frames, audio_callbacks, recording_thread>>
capThreadVars == <<rec_pc, rec_tick>>
capHostVars == <<cap_pc, cap_sessions>>
deviceVars == <<device_info, default_input, start_call>>
capVars == <<captureVars, capThreadVars, capHostVars, deviceVars>>
pipeVars == <<running, segment_ready>>
sessionVars == <<start_error>>
storeVars == <<lists, segments_ref, ap_ref, made, rd, rd_seen>>
exportVars == <<out, file>>
levelVars == <<last_chunk, level>>
timingVars == <<oldest, span, epoch>>
pureVars == <<exportVars, levelVars, timingVars>>
extVars == <<sessionVars, storeVars, pureVars>>
coreVars == <<engineVars, envVars, threadVars, hostVars, histVars, anVars, capVars, pipeVars>>
vars == <<engineVars, envVars, threadVars, hostVars, histVars, anVars, capVars, pipeVars,
          extVars>>

(***************************************************************************)
(* Pure functions.                                                         *)
(***************************************************************************)
RECURSIVE Join(_)
\* b''.join(chunks)
Join(chunks) ==
    IF chunks = <<>> THEN <<>> ELSE Head(chunks) \o Join(Tail(chunks))

RECURSIVE LStrip(_)
LStrip(s) ==
    IF s # <<>> /\ Head(s) \in Whitespace THEN LStrip(Tail(s)) ELSE s

RECURSIVE RStrip(_)
RStrip(s) ==
    IF s # <<>> /\ s[Len(s)] \in Whitespace THEN RStrip(SubSeq(s, 1, Len(s) - 1)) ELSE s

\* str.strip()
Strip(s) == RStrip(LStrip(s))

\* the k-th chunk the audio thread produces, n bytes long
Chunk(k, n) == [i \in 1..n |-> k]

\* min_size = int(self.sample_rate * 0.5 * 2)
min_size == (sample_rate * 5 * 2) \div 10

\* faulty variant of TooShort: the threshold is one byte too low
TooShortByOne(data) == Len(data) < min_size - 1

\* faulty variant of TooShort: a clip of exactly min_size is skipped too
TooShortOrEqual(data) == Len(data) <= min_size

\* len(audio_data) < min_size
TooShort(data) == Len(data) < min_size

\* duration = len(audio_data) / (self.sample_rate * 2), kept as a fraction
Duration(data) == [num |-> Len(data), den |-> sample_rate * 2]

\* faulty variant of HasText: `if text`, whitespace not looked at
HasTextUnstripped(t) == t # NoText /\ t # <<>>

\* `if text and text.strip()`
HasText(t) == t # NoText /\ t # <<>> /\ Strip(t) # <<>>

\* TranscriptionSegment(text=text.strip(), timestamp=timestamp, duration=duration)
Segment(t, ts, data) == [text |-> Strip(t), timestamp |-> ts, duration |-> Duration(data)]

\* faulty variant of Drained: the buffer is not emptied
DrainedKeepsBuffer(buf) == [data |-> Join(buf), rest |-> buf]

\* the drain of _process_buffer: audio_data = b''.join(buffer); buffer = []
Drained(buf) == [data |-> Join(buf), rest |-> <<>>]

\* current_time - self.last_transcription_time >= self.buffer_duration
Due(cur, last) == cur - last >= buffer_duration

\* faulty variant of RetryAfter: `if attempt < retry_count`
RetryAfterOneMore(a) == a < retry_count

\* `if attempt < retry_count - 1` : another attempt follows the failed one
RetryAfter(a) == a < retry_count - 1

\* what one invocation of a callback does: it returns, it raises, or it calls
\* stop() of the component whose loop thread is invoking it
CallbackDoes == {"returns", "raises", "stops"}

\* how the invocation ends for the dispatching loop: stop() called by the
\* loop's own thread reaches `self.<thread>.join(timeout=5)`, and join() of the
\* current thread raises RuntimeError
Outcome(does) ==
    CASE does = "returns" -> "returned"
      [] does = "raises" -> "Exception"
      [] does = "stops" -> "RuntimeError"

RECURSIVE DispatchAborts(_, _, _)
\* faulty variant of Dispatch: the first exception ends the fan-out
DispatchAborts(cbs, value, does) ==
    IF cbs = <<>> THEN <<>>
    ELSE <<[callback |-> Head(cbs), value |-> value, outcome |-> Outcome(Head(does))]>>
         \o (IF Head(does) = "returns"
             THEN DispatchAborts(Tail(cbs), value, Tail(does))
             ELSE <<>>)

RECURSIVE Dispatch(_, _, _)
\* for callback in self.callbacks: try: callback(value) / except Exception: print(...)
\* the invocations made, in order, does[i] being what the i-th callback does
Dispatch(cbs, value, does) ==
    IF cbs = <<>> THEN <<>>
    ELSE <<[callback |-> Head(cbs), value |-> value, outcome |-> Outcome(Head(does))]>>
         \o Dispatch(Tail(cbs), value, Tail(does))

\* some callback of the fan-out called stop()
Stopped(does) == \E i \in 1..Len(does) : does[i] = "stops"

\* the record of one pass of _process_buffer (history)
NoPass ==
    [clip |-> <<>>, drained |-> FALSE, outcomes |-> <<>>, response |-> NoText,
     segs |-> <<>>, cbs |-> 0, calls |-> <<>>, fault |-> "none"]

\* what stop() found when it was called (history); NoMark outside stop().
\* idle: the engine was not running and no audio was appended since it became
\* idle, by construction or by the return of the previous stop()
NoMark == [active |-> FALSE, running |-> FALSE, idle |-> FALSE, appended |-> 0,
           drains |-> 0, submitted |-> 0, buffered |-> 0]

\* where a thread continues when its _process_buffer returns
ReturnPc(t) == IF t = Host THEN "stop_ret" ELSE "set_last"

\* program points at which a thread is inside _process_buffer
InPass == {"pb_lock", "pb_locked", "call", "retry_sleep", "append", "callbacks"}
\* program points at which a thread is blocked for an unbounded time
SlowPcs == {"call", "retry_sleep"}

\* no call of the analysis service in flight
NoRequest == [transcript |-> NoText, previous |-> NoText]

\* self.stream = None
NoStream == "None"

\* the thread has not read from the stream
NoRead == [outcome |-> "none", calls |-> <<>>]

\* neither get_full_transcript nor export_transcript has been called
NoOut == [op |-> "none", arg |-> "none", status |-> "none", value |-> <<>>]

\* the document json.dumps writes, before anything is put into it
NoJson == [start_time |-> <<>>, duration |-> <<>>, segments |-> <<>>]

\* the thread has drained nothing
NoSpan == [since |-> NoTime, at |-> NoTime]

\* get_audio_level was not called
NoLevel ==
    [called |-> FALSE, frames_empty |-> TRUE, last_chunk |-> <<>>, nan |-> FALSE,
     mean_num |-> 0, mean_den |-> 1, clamped |-> FALSE]

\* there is no file at the path given to export_transcript
NoFile == [format |-> "none", text |-> <<>>, json |-> NoJson]

\* no read of the store is in progress
NoReader == [pc |-> "idle", kind |-> "none", ref |-> 0, i |-> 0, lines |-> <<>>,
             result |-> <<>>]

\* start_recording has not been called
NoCall == [arg |-> NoDevice, device_index |-> NoDevice, outcome |-> "none"]

\* the indices of the devices that have input channels
InputIndices(info) == {i \in 0..(Len(info) - 1) : info[i + 1] > 0}

RECURSIVE ListFrom(_, _)
\* list_devices(): for i in range(get_device_count()): the devices with
\* maxInputChannels > 0, in index order
ListFrom(info, i) ==
    IF i >= Len(info) THEN <<>>
    ELSE (IF info[i + 1] > 0 THEN <<[index |-> i, channels |-> info[i + 1]]>> ELSE <<>>)
         \o ListFrom(info, i + 1)

list_devices(info) == ListFrom(info, 0)

\* get_default_device(): get_default_input_device_info()['index'], and when
\* that raises: `devices[0]['index'] if devices else None`
get_default_device(info, dflt) ==
    IF dflt # NoDevice THEN dflt
    ELSE LET devs == list_devices(info) IN
           IF devs # <<>> THEN devs[1].index ELSE NoDevice

\* self.audio.open(..., input_device_index=d) can return a stream: d is a
\* device with input channels, or d is None (the library then takes the
\* default input device) and there is a default
CanOpen(d) ==
    IF d = NoDevice THEN default_input # NoDevice
    ELSE d \in InputIndices(device_info)

\* no call of the analysis service has returned to the thread
NoTick == [returned |-> FALSE, result |-> NoText, calls |-> <<>>, context |-> NoText,
           called |-> NoTime]

TypeOK ==
    /\ is_transcribing \in BOOLEAN
    /\ buffer_lock \in {Free, Audio} \cup Threads
    /\ transcription_thread \in {0} \cup Loops
    /\ now \in 0..MaxTime
    /\ sessions \in 0..MaxSessions
    /\ Len(appended) <= MaxChunks
    /\ quiet_since \in {NoTime} \cup (0..MaxChunks)

InitWith(info, dflt, segs, started) ==
    /\ is_transcribing = FALSE
    /\ audio_buffer = <<>>
    /\ buffer_lock = Free
    /\ transcription_thread = 0
    /\ segments = segs
    /\ callbacks = <<>>
    /\ start_time = started
    /\ last_transcription_time = NoTime
    /\ now = 0
    /\ appended = <<>>
    /\ audio_pc = "idle"
    /\ pc = [t \in Threads |-> IF t = Host THEN "idle" ELSE "unborn"]
    /\ current_time = [t \in Threads |-> 0]
    /\ audio_data = [t \in Threads |-> <<>>]
    /\ attempt = [t \in Threads |-> 0]
    /\ text = [t \in Threads |-> NoText]
    /\ timestamp = [t \in Threads |-> 0]
    /\ sessions = 0
    /\ stop_mark = NoMark
    /\ quiet_since = 0
    /\ drains = <<>>
    /\ submitted = <<>>
    /\ dropped = {}
    /\ pass = [t \in Threads |-> NoPass]
    /\ is_running = FALSE
    /\ analysis_thread = 0
    /\ current_transcript = <<>>
    /\ last_analysis = NoText
    /\ last_analysis_time = NoTime
    /\ analysis_callbacks = <<>>
    /\ an_pc = [t \in Threads |-> IF t = Host THEN "idle" ELSE "unborn"]
    /\ an_current_time = [t \in Threads |-> 0]
    /\ an_request = [t \in Threads |-> NoRequest]
    /\ an_tick = [t \in Threads |-> NoTick]
    /\ an_sessions = 0
    /\ an_slow = FALSE
    /\ is_recording = FALSE
    /\ stream = NoStream
    /\ frames = <<>>
    /\ audio_callbacks = <<>>
    /\ recording_thread = 0
    /\ rec_pc = [t \in Loops |-> "unborn"]
    /\ rec_tick = [t \in Loops |-> NoRead]
    /\ cap_pc = "idle"
    /\ cap_sessions = 0
    /\ device_info = info
    /\ default_input = dflt
    /\ start_call = NoCall
    /\ running = FALSE
    /\ segment_ready = 0
    /\ start_error = FALSE
    /\ lists = [k \in 1..MaxLists |-> <<>>]
    /\ segments_ref = 1
    /\ ap_ref = 0
    /\ made = 0
    /\ rd = NoReader
    /\ rd_seen = {}
    /\ out = NoOut
    /\ file = NoFile
    /\ last_chunk = <<>>
    /\ level = NoLevel
    /\ oldest = NoTime
    /\ epoch = 0
    /\ span = [t \in Threads |-> NoSpan]

\* the state after construction, on a machine with one input device, which is
\* the default one
Init == InitWith(<<1>>, 0, <<>>, NoTime)

\* the state after construction, on any machine: devices with and without
\* input channels, with or without a default input device
InitCapture ==
    \E n \in 0..MaxDevices :
      \E info \in [1..n -> {0, 1}] :
        \E dflt \in {NoDevice} \cup InputIndices(info) :
          InitWith(info, dflt, <<>>, NoTime)

(***************************************************************************)
(* The clock.                                                              *)
(***************************************************************************)
Tick ==
    /\ now < MaxTime
    /\ now' = now + 1
    /\ UNCHANGED <<extVars, pipeVars, capVars, anVars, engineVars, appended, audio_pc, threadVars, hostVars, histVars>>

(***************************************************************************)
(* add_audio_chunk, by the audio thread.                                   *)
(***************************************************************************)
\* `with self.buffer_lock:` entered
AddAcquire ==
    /\ audio_pc = "idle"
    /\ Len(appended) < MaxChunks
    /\ buffer_lock = Free
    /\ buffer_lock' = Audio
    /\ audio_pc' = "locked"
    /\ UNCHANGED <<extVars, pipeVars, capVars, anVars, is_transcribing, audio_buffer, transcription_thread, segments,
                   callbacks, start_time, last_transcription_time, now, appended,
                   threadVars, hostVars, histVars>>

\* self.audio_buffer.append(audio_data), and the lock released
AddAppendCore ==
    /\ audio_pc = "locked"
    /\ \E n \in 1..MaxChunkLen :
         LET c == Chunk(Len(appended) + 1, n) IN
           /\ audio_buffer' = Append(audio_buffer, c)
           /\ appended' = Append(appended, c)
    /\ buffer_lock' = Free
    /\ audio_pc' = "idle"
    /\ UNCHANGED <<sessionVars, storeVars, exportVars, levelVars, pipeVars, capVars, anVars,
                   is_transcribing, transcription_thread, segments, callbacks,
                   start_time, last_transcription_time, now, threadVars, hostVars,
                   histVars>>

\* add_audio_chunk(audio_data)
AddAppend == AddAppendCore /\ UNCHANGED timingVars

\* add_audio_chunk, with the time of the oldest buffered chunk noted
AddAppendAt ==
    /\ AddAppendCore
    /\ oldest' = IF audio_buffer = <<>> THEN now ELSE oldest
    /\ UNCHANGED <<span, epoch>>

(***************************************************************************)
(* _process_buffer, run by thread t: a loop thread, or the host thread     *)
(* inside stop().                                                          *)
(***************************************************************************)
\* _create_wav_file: mono, 16-bit, the configured rate, named audio.wav
CreateWav(data) ==
    [nchannels |-> 1, sampwidth |-> 2, framerate |-> sample_rate,
     frames |-> data, name |-> "audio.wav"]

\* the locals of _process_buffer and _transcribe_audio go out of scope
DropLocals(t) ==
    /\ audio_data' = [audio_data EXCEPT ![t] = <<>>]
    /\ attempt' = [attempt EXCEPT ![t] = 0]
    /\ text' = [text EXCEPT ![t] = NoText]
    /\ timestamp' = [timestamp EXCEPT ![t] = 0]

\* `with self.buffer_lock:` entered
PBAcquire(t) ==
    /\ pc[t] = "pb_lock"
    /\ buffer_lock = Free
    /\ buffer_lock' = t
    /\ pc' = [pc EXCEPT ![t] = "pb_locked"]
    /\ UNCHANGED <<extVars, pipeVars, capVars, anVars, is_transcribing, audio_buffer, transcription_thread, segments,
                   callbacks, start_time, last_transcription_time, envVars,
                   current_time, audio_data, attempt, text, timestamp, hostVars,
                   histVars>>

\* the body of the `with`: return on an empty buffer, else take it all; then the
\* length check, the WAV file and the first call of the service
PBDrainCore(t) ==
    /\ pc[t] = "pb_locked"
    /\ buffer_lock' = Free
    /\ IF audio_buffer = <<>>
       THEN /\ pc' = [pc EXCEPT ![t] = ReturnPc(t)]
            /\ UNCHANGED <<audio_buffer, audio_data, attempt, drains, submitted, pass>>
       ELSE LET d == Drained(audio_buffer) IN
            /\ audio_buffer' = d.rest
            /\ drains' = Append(drains, [data |-> d.data, by |-> t])
            /\ pass' = [pass EXCEPT ![t].clip = d.data, ![t].drained = TRUE]
            /\ IF TooShort(d.data)
               THEN /\ pc' = [pc EXCEPT ![t] = ReturnPc(t)]
                    /\ UNCHANGED <<audio_data, attempt, submitted>>
               ELSE /\ pc' = [pc EXCEPT ![t] = "call"]
                    /\ audio_data' = [audio_data EXCEPT ![t] = d.data]
                    /\ attempt' = [attempt EXCEPT ![t] = 0]
                    /\ submitted' = Append(submitted, CreateWav(d.data))
    /\ UNCHANGED <<sessionVars, storeVars, exportVars, levelVars, pipeVars, capVars, anVars,
                   is_transcribing, transcription_thread, segments, callbacks,
                   start_time, last_transcription_time, envVars, current_time, text,
                   timestamp, hostVars, dropped>>

\* _process_buffer's drain, with the span of the audio it takes noted
PBDrainAt(t) ==
    /\ PBDrainCore(t)
    /\ span' = IF audio_buffer = <<>> THEN span
               ELSE [span EXCEPT ![t] = [since |-> oldest, at |-> now]]
    /\ UNCHANGED <<oldest, epoch>>

\* faulty variant of PBDrain: the lock is kept while the clip is transcribed
PBDrainKeepsLock(t) ==
    /\ pc[t] = "pb_locked"
    /\ IF audio_buffer = <<>>
       THEN /\ pc' = [pc EXCEPT ![t] = ReturnPc(t)]
            /\ buffer_lock' = Free
            /\ UNCHANGED <<audio_buffer, audio_data, attempt, drains, submitted, pass>>
       ELSE LET d == Drained(audio_buffer) IN
            /\ audio_buffer' = d.rest
            /\ drains' = Append(drains, [data |-> d.data, by |-> t])
            /\ pass' = [pass EXCEPT ![t].clip = d.data, ![t].drained = TRUE]
            /\ IF TooShort(d.data)
               THEN /\ pc' = [pc EXCEPT ![t] = ReturnPc(t)]
                    /\ buffer_lock' = Free
                    /\ UNCHANGED <<audio_data, attempt, submitted>>
               ELSE /\ pc' = [pc EXCEPT ![t] = "call"]
                    /\ buffer_lock' = t
                    /\ audio_data' = [audio_data EXCEPT ![t] = d.data]
                    /\ attempt' = [attempt EXCEPT ![t] = 0]
                    /\ submitted' = Append(submitted, CreateWav(d.data))
    /\ UNCHANGED <<extVars, pipeVars, capVars, anVars, is_transcribing, transcription_thread, segments, callbacks,
                   start_time, last_transcription_time, envVars, current_time, text,
                   timestamp, hostVars, dropped>>

\* the drain of _process_buffer
PBDrain(t) == PBDrainCore(t) /\ UNCHANGED timingVars

\* self.client.audio.transcriptions.create(...) returns a text, or raises
ServiceCall(t) ==
    /\ pc[t] = "call"
    /\ \/ \E r \in Responses :
            /\ pass' = [pass EXCEPT ![t].outcomes = Append(@, "ok"), ![t].response = r]
            /\ UNCHANGED dropped
            /\ IF HasText(r)
               THEN /\ text' = [text EXCEPT ![t] = r]
                    /\ timestamp' = [timestamp EXCEPT ![t] = now]
                    /\ pc' = [pc EXCEPT ![t] = "append"]
                    /\ UNCHANGED <<audio_data, attempt>>
               ELSE /\ pc' = [pc EXCEPT ![t] = ReturnPc(t)]
                    /\ DropLocals(t)
       \/ /\ pass' = [pass EXCEPT ![t].outcomes = Append(@, "err")]
          /\ IF RetryAfter(attempt[t])
             THEN /\ pc' = [pc EXCEPT ![t] = "retry_sleep"]
                  /\ UNCHANGED <<audio_data, attempt, text, timestamp, dropped>>
             ELSE /\ pc' = [pc EXCEPT ![t] = ReturnPc(t)]
                  /\ dropped' = dropped \cup {[clip |-> audio_data[t], by |-> t]}
                  /\ DropLocals(t)
    /\ UNCHANGED <<extVars, pipeVars, capVars, anVars, engineVars, envVars, current_time, hostVars, drains, submitted>>

\* time.sleep(1), then the next attempt
RetrySleep(t) ==
    /\ pc[t] = "retry_sleep"
    /\ attempt' = [attempt EXCEPT ![t] = @ + 1]
    /\ pc' = [pc EXCEPT ![t] = "call"]
    /\ UNCHANGED <<extVars, pipeVars, capVars, anVars, engineVars, envVars, current_time, audio_data, text, timestamp,
                   hostVars, histVars>>

\* self.segments.append(segment)
AppendSegment(t) ==
    /\ pc[t] = "append"
    /\ segments' = Append(segments, Segment(text[t], timestamp[t], audio_data[t]))
    /\ pass' = [pass EXCEPT ![t].segs =
                   Append(@, Segment(text[t], timestamp[t], audio_data[t]))]
    /\ pc' = [pc EXCEPT ![t] = "callbacks"]
    /\ UNCHANGED <<extVars, pipeVars, capVars, anVars, is_transcribing, audio_buffer, buffer_lock, transcription_thread,
                   callbacks, start_time, last_transcription_time, envVars,
                   current_time, audio_data, attempt, text, timestamp, hostVars,
                   drains, submitted, dropped>>

\* TranscriptionWorker._on_segment, the callback registered last:
\* `if self.running: self.segment_ready.emit(segment)`; the callbacks of earlier
\* workers are still registered, and their workers are stopped
Emitted(does) ==
    IF running /\ does # <<>> /\ does[Len(does)] = "returns" THEN 1 ELSE 0

\* what the callbacks may do when thread t invokes them: stop() is called
\* only from the engine's current loop thread
SegmentCallbackDoes(t) ==
    IF t \in Loops /\ t = transcription_thread
    THEN CallbackDoes
    ELSE CallbackDoes \ {"stops"}

\* for callback in self.callbacks: try: callback(segment) except Exception: ...
\* a callback that calls self.stop() clears is_transcribing before its join raises
CallCallbacks(t) ==
    /\ pc[t] = "callbacks"
    /\ \E does \in [1..Len(callbacks) -> SegmentCallbackDoes(t)] :
         LET calls == Dispatch(callbacks, pass[t].segs[1], does) IN
           /\ pass' = [pass EXCEPT ![t].cbs = Len(calls), ![t].calls = calls]
           /\ is_transcribing' = (is_transcribing /\ ~Stopped(does))
           /\ segment_ready' = segment_ready + Emitted(does)
    /\ pc' = [pc EXCEPT ![t] = ReturnPc(t)]
    /\ DropLocals(t)
    /\ UNCHANGED <<extVars, running, capVars, anVars, audio_buffer, buffer_lock, transcription_thread, segments,
                   callbacks, start_time, last_transcription_time, envVars,
                   current_time, hostVars, drains, submitted, dropped>>

(***************************************************************************)
(* _transcription_loop, run by loop thread t.                              *)
(***************************************************************************)
\* time.sleep(0.5); `while self.is_transcribing:`; current_time = time.time();
\* the due check and the check of the buffer
LoopCheck(t) ==
    /\ pc[t] = "loop_check"
    /\ IF ~is_transcribing
       THEN /\ pc' = [pc EXCEPT ![t] = "dead"]
            /\ UNCHANGED current_time
       ELSE IF Due(now, last_transcription_time) /\ Len(audio_buffer) > 0
       THEN /\ pc' = [pc EXCEPT ![t] = "pb_lock"]
            /\ current_time' = [current_time EXCEPT ![t] = now]
       ELSE UNCHANGED <<pc, current_time>>
    /\ UNCHANGED <<extVars, pipeVars, capVars, anVars, engineVars, envVars, audio_data, attempt, text, timestamp,
                   hostVars, histVars>>

\* faulty variant of SetLast: the loop ends after a pass
SetLastEndsLoop(t) ==
    /\ pc[t] = "set_last"
    /\ last_transcription_time' = current_time[t]
    /\ current_time' = [current_time EXCEPT ![t] = 0]
    /\ pc' = [pc EXCEPT ![t] = "dead"]
    /\ pass' = [pass EXCEPT ![t] = NoPass]
    /\ UNCHANGED <<extVars, pipeVars, capVars, anVars, is_transcribing, audio_buffer, buffer_lock,
                   transcription_thread, segments, callbacks, start_time, envVars,
                   audio_data, attempt, text, timestamp, hostVars, drains, submitted,
                   dropped>>

\* self.last_transcription_time = current_time
SetLast(t) ==
    /\ pc[t] = "set_last"
    /\ last_transcription_time' = current_time[t]
    /\ current_time' = [current_time EXCEPT ![t] = 0]
    /\ pc' = [pc EXCEPT ![t] = "loop_check"]
    /\ pass' = [pass EXCEPT ![t] = NoPass]
    /\ UNCHANGED <<extVars, pipeVars, capVars, anVars, is_transcribing, audio_buffer, buffer_lock, transcription_thread,
                   segments, callbacks, start_time, envVars, audio_data,
                   attempt, text, timestamp, hostVars, drains, submitted, dropped>>

(***************************************************************************)
(* start() and stop(), called by the host thread.                          *)
(***************************************************************************)
\* start() on a running engine: `if self.is_transcribing: return`
StartRunning ==
    /\ pc[Host] = "idle"
    /\ is_transcribing
    /\ UNCHANGED vars

\* faulty variant of StartFlag: the flag is not looked at before it is set
StartFlagUnguarded ==
    /\ pc[Host] = "idle"
    /\ sessions < MaxSessions
    /\ is_transcribing' = TRUE
    /\ quiet_since' = NoTime
    /\ pc' = [pc EXCEPT ![Host] = "start_init"]
    /\ UNCHANGED <<extVars, pipeVars, capVars, anVars, audio_buffer, buffer_lock, transcription_thread, segments,
                   callbacks, start_time, last_transcription_time, envVars,
                   current_time, audio_data, attempt, text, timestamp, sessions,
                   stop_mark, histVars>>

\* start(): self.is_transcribing = True
StartFlag ==
    /\ pc[Host] = "idle"
    /\ ~is_transcribing
    /\ sessions < MaxSessions
    /\ is_transcribing' = TRUE
    /\ quiet_since' = NoTime
    /\ pc' = [pc EXCEPT ![Host] = "start_init"]
    /\ UNCHANGED <<extVars, pipeVars, capVars, anVars, audio_buffer, buffer_lock, transcription_thread, segments,
                   callbacks, start_time, last_transcription_time, envVars,
                   current_time, audio_data, attempt, text, timestamp, sessions,
                   stop_mark, histVars>>

\* start(): the times, the empty store, the callback and the new thread
StartSpawn ==
    /\ pc[Host] = "start_init"
    /\ start_time' = now
    /\ last_transcription_time' = now
    /\ segments' = <<>>
    /\ callbacks' = Append(callbacks, Handler)
    /\ sessions' = sessions + 1
    /\ transcription_thread' = sessions + 1
    /\ pc' = [pc EXCEPT ![Host] = "idle", ![sessions + 1] = "loop_check"]
    /\ UNCHANGED <<extVars, pipeVars, capVars, anVars, is_transcribing, audio_buffer, buffer_lock, envVars, current_time,
                   audio_data, attempt, text, timestamp, stop_mark, quiet_since,
                   histVars>>

\* stop(): self.is_transcribing = False
StopFlag ==
    /\ pc[Host] = "idle"
    /\ is_transcribing' = FALSE
    /\ stop_mark' = [active |-> TRUE, running |-> is_transcribing,
                      idle |-> (~is_transcribing /\ quiet_since = Len(appended)
                                  /\ audio_pc = "idle"),
                      appended |-> Len(appended), drains |-> Len(drains),
                      submitted |-> Len(submitted), buffered |-> Len(audio_buffer)]
    /\ pc' = [pc EXCEPT ![Host] = IF transcription_thread # 0 THEN "join" ELSE "final_check"]
    /\ UNCHANGED <<extVars, pipeVars, capVars, anVars, audio_buffer, buffer_lock, transcription_thread, segments,
                   callbacks, start_time, last_transcription_time, envVars,
                   current_time, audio_data, attempt, text, timestamp, sessions,
                   quiet_since, histVars>>

\* self.transcription_thread.join(timeout=5) returns because the thread ended
JoinEnded ==
    /\ pc[Host] = "join"
    /\ pc[transcription_thread] = "dead"
    /\ pc' = [pc EXCEPT ![Host] = "final_check"]
    /\ UNCHANGED <<extVars, pipeVars, capVars, anVars, engineVars, envVars, current_time, audio_data, attempt, text,
                   timestamp, hostVars, histVars>>

\* join(timeout=5) returns because 5 seconds passed: the thread is blocked in
\* the service or in a retry delay
JoinTimeout ==
    /\ pc[Host] = "join"
    /\ pc[transcription_thread] \in SlowPcs
    /\ pc' = [pc EXCEPT ![Host] = "final_check"]
    /\ UNCHANGED <<extVars, pipeVars, capVars, anVars, engineVars, envVars, current_time, audio_data, attempt, text,
                   timestamp, hostVars, histVars>>

\* faulty variant of FinalCheck: stop() returns without its final pass
FinalCheckSkips ==
    /\ pc[Host] = "final_check"
    /\ pc' = [pc EXCEPT ![Host] = "stop_ret"]
    /\ UNCHANGED <<extVars, pipeVars, capVars, anVars, engineVars, envVars, current_time, audio_data, attempt,
                   text, timestamp, hostVars, histVars>>

\* `if len(self.audio_buffer) > 0: self._process_buffer()`
FinalCheck ==
    /\ pc[Host] = "final_check"
    /\ pc' = [pc EXCEPT ![Host] = IF Len(audio_buffer) > 0 THEN "pb_lock" ELSE "stop_ret"]
    /\ UNCHANGED <<extVars, pipeVars, capVars, anVars, engineVars, envVars, current_time, audio_data, attempt, text,
                   timestamp, hostVars, histVars>>

\* stop() returns
StopReturn ==
    /\ pc[Host] = "stop_ret"
    /\ pc' = [pc EXCEPT ![Host] = "idle"]
    /\ pass' = [pass EXCEPT ![Host] = NoPass]
    /\ stop_mark' = NoMark
    /\ quiet_since' = Len(appended)
    /\ UNCHANGED <<extVars, pipeVars, capVars, anVars, engineVars, envVars, current_time, audio_data, attempt, text,
                   timestamp, sessions, drains, submitted, dropped>>

ProcessBuffer(t) ==
    \/ PBAcquire(t)
    \/ PBDrain(t)
    \/ ServiceCall(t)
    \/ RetrySleep(t)
    \/ AppendSegment(t)
    \/ CallCallbacks(t)

TranscriptionLoop(t) ==
    \/ LoopCheck(t)
    \/ SetLast(t)

Next ==
    \/ Tick
    \/ AddAcquire
    \/ AddAppend
    \/ StartRunning
    \/ StartFlag
    \/ StartSpawn
    \/ StopFlag
    \/ JoinEnded
    \/ JoinTimeout
    \/ FinalCheck
    \/ StopReturn
    \/ \E t \in Threads : ProcessBuffer(t)
    \/ \E t \in Loops : TranscriptionLoop(t)

Spec == Init /\ [][Next]_vars

\* the scheduler is fair to every thread that can take a step, the clock goes
\* on, and a call of the service returns or raises; the host is free to call
\* start() and stop() or not, but a call it has begun goes on
Fairness ==
    /\ WF_vars(Tick)
    /\ WF_vars(AddAppend)
    /\ \A t \in Threads : WF_vars(ProcessBuffer(t))
    /\ \A t \in Loops : WF_vars(TranscriptionLoop(t))
    /\ WF_vars(StartSpawn)
    /\ WF_vars(JoinEnded \/ JoinTimeout \/ FinalCheck \/ StopReturn)

SpecFair == Init /\ [][Next]_vars /\ Fairness

(***************************************************************************)
(* A session that is not stopped by the host, with the age of the buffered *)
(* audio noted, on a clock long enough for a pass to outlast the interval. *)
(***************************************************************************)
\* a loop that is due polls (time.sleep(0.5)) and takes the buffer before the
\* clock moves by a whole interval; only the service and the retry delays
\* take longer
OutageTick ==
    /\ now < MaxOutage
    /\ \A t \in Loops :
         /\ pc[t] \notin {"pb_lock", "pb_locked", "set_last"}
         /\ pc[t] = "loop_check" =>
              ~(is_transcribing /\ Due(now, last_transcription_time) /\ Len(audio_buffer) > 0)
    /\ now' = now + 1
    /\ UNCHANGED <<extVars, pipeVars, capVars, anVars, engineVars, appended, audio_pc,
                   threadVars, hostVars, histVars>>

ProcessBufferAt(t) ==
    \/ PBAcquire(t)
    \/ PBDrainAt(t)
    \/ ServiceCall(t)
    \/ RetrySleep(t)
    \/ AppendSegment(t)
    \/ CallCallbacks(t)

NextOutage ==
    \/ OutageTick
    \/ AddAcquire
    \/ AddAppendAt
    \/ StartFlag
    \/ StartSpawn
    \/ \E t \in Loops : ProcessBufferAt(t)
    \/ \E t \in Loops : TranscriptionLoop(t)

SpecOutage == Init /\ [][NextOutage]_vars

(***************************************************************************)
(* RealTimeAnalyzer: start(), stop() and update_transcript() called by the *)
(* host thread, _analysis_loop run by one thread per start().              *)
(***************************************************************************)
\* current_time - self.last_analysis_time >= self.analysis_interval
AnalysisDue(cur, last) == cur - last >= analysis_interval

\* faulty variant of HasTranscript: `if self.current_transcript`
HasTranscriptUnstripped(tr) == tr # <<>>

\* `if self.current_transcript.strip()`
HasTranscript(tr) == Strip(tr) # <<>>

\* `if analysis:`
IsAnalysis(a) == a # NoText /\ a # <<>>

\* start() on a running analyzer: `if self.is_running: return`
AnStartRunning ==
    /\ an_pc[Host] = "idle"
    /\ is_running
    /\ UNCHANGED vars

\* start(): self.is_running = True
AnStartFlag ==
    /\ an_pc[Host] = "idle"
    /\ ~is_running
    /\ an_sessions < MaxSessions
    /\ is_running' = TRUE
    /\ an_pc' = [an_pc EXCEPT ![Host] = "start_init"]
    /\ UNCHANGED <<extVars, pipeVars, capVars, engineVars, envVars, threadVars, hostVars, histVars,
                   analysis_thread, current_transcript, last_analysis,
                   last_analysis_time, analysis_callbacks, an_current_time,
                   an_request, an_tick, anHostVars>>

\* start(): the time, the callback and the new thread
AnStartSpawn ==
    /\ an_pc[Host] = "start_init"
    /\ last_analysis_time' = now
    /\ analysis_callbacks' = Append(analysis_callbacks, "on_analysis")
    /\ an_sessions' = an_sessions + 1
    /\ analysis_thread' = an_sessions + 1
    /\ an_pc' = [an_pc EXCEPT ![Host] = "idle", ![an_sessions + 1] = "an_loop"]
    /\ UNCHANGED <<extVars, pipeVars, capVars, engineVars, envVars, threadVars, hostVars, histVars, is_running,
                   current_transcript, last_analysis, an_current_time, an_request,
                   an_tick, an_slow>>

\* stop(): self.is_running = False; the thread it will join is, or is not,
\* inside a call of the analysis service
AnStopFlag ==
    /\ an_pc[Host] = "idle"
    /\ is_running' = FALSE
    /\ IF analysis_thread # 0
       THEN /\ an_pc' = [an_pc EXCEPT ![Host] = "join"]
            /\ an_slow' = (an_pc[analysis_thread] = "an_call")
       ELSE UNCHANGED <<an_pc, an_slow>>
    /\ UNCHANGED <<extVars, pipeVars, capVars, engineVars, envVars, threadVars, hostVars, histVars,
                   analysis_thread, current_transcript, last_analysis,
                   last_analysis_time, analysis_callbacks, an_current_time,
                   an_request, an_tick, an_sessions>>

\* self.analysis_thread.join(timeout=5) returns because the thread ended
AnJoinEnded ==
    /\ an_pc[Host] = "join"
    /\ ~an_slow
    /\ an_pc[analysis_thread] = "dead"
    /\ an_pc' = [an_pc EXCEPT ![Host] = "idle"]
    /\ UNCHANGED <<extVars, pipeVars, capVars, engineVars, envVars, threadVars, hostVars, histVars, analyzerVars,
                   an_current_time, an_request, an_tick, anHostVars>>

\* join(timeout=5) returns because 5 seconds passed: the thread was inside a
\* call of the service, after which it sleeps 5 seconds before it looks at
\* is_running
AnJoinTimeout ==
    /\ an_pc[Host] = "join"
    /\ an_slow
    /\ an_pc' = [an_pc EXCEPT ![Host] = "idle"]
    /\ an_slow' = FALSE
    /\ UNCHANGED <<extVars, pipeVars, capVars, engineVars, envVars, threadVars, hostVars, histVars, analyzerVars,
                   an_current_time, an_request, an_tick, an_sessions>>

\* update_transcript(transcript)
UpdateTranscript ==
    /\ an_pc[Host] = "idle"
    /\ \E tr \in Transcripts : current_transcript' = tr
    /\ UNCHANGED <<extVars, pipeVars, capVars, engineVars, envVars, threadVars, hostVars, histVars, is_running,
                   analysis_thread, last_analysis, last_analysis_time,
                   analysis_callbacks, anThreadVars, anHostVars>>

\* time.sleep(5); `while self.is_running:`; the due check, the check of the
\* transcript and the call of analyze_incremental
AnLoopCheck(t) ==
    /\ an_pc[t] = "an_loop"
    /\ IF ~is_running
       THEN /\ an_pc' = [an_pc EXCEPT ![t] = "dead"]
            /\ an_tick' = [an_tick EXCEPT ![t] = NoTick]
            /\ UNCHANGED <<an_current_time, an_request>>
       ELSE IF AnalysisDue(now, last_analysis_time) /\ HasTranscript(current_transcript)
       THEN /\ an_pc' = [an_pc EXCEPT ![t] = "an_call"]
            /\ an_current_time' = [an_current_time EXCEPT ![t] = now]
            /\ an_request' = [an_request EXCEPT ![t] =
                   [transcript |-> current_transcript, previous |-> last_analysis]]
            /\ an_tick' = [an_tick EXCEPT ![t] = NoTick]
       ELSE UNCHANGED <<an_pc, an_current_time, an_request, an_tick>>
    /\ UNCHANGED <<extVars, pipeVars, capVars, engineVars, envVars, threadVars, hostVars, histVars, analyzerVars,
                   anHostVars>>

\* what the callbacks may do when thread t invokes them: stop() is called
\* only from the analyzer's current loop thread
AnalysisCallbackDoes(t) ==
    IF t = analysis_thread THEN CallbackDoes ELSE CallbackDoes \ {"stops"}

\* analyze_incremental returns an analysis, or None when the service failed (the
\* exception is caught in analyze_transcript); on an analysis: last_analysis,
\* the time, and the callbacks, each in its own try/except
AnCallReturns(t) ==
    /\ an_pc[t] = "an_call"
    /\ \E a \in Analyses :
         IF IsAnalysis(a)
         THEN /\ last_analysis' = a
              /\ last_analysis_time' = an_current_time[t]
              /\ \E does \in [1..Len(analysis_callbacks) -> AnalysisCallbackDoes(t)] :
                   /\ an_tick' = [an_tick EXCEPT ![t] =
                          [returned |-> TRUE, result |-> a,
                           calls |-> Dispatch(analysis_callbacks, a, does),
                           context |-> a, called |-> an_current_time[t]]]
                   /\ is_running' = (is_running /\ ~Stopped(does))
         ELSE /\ an_tick' = [an_tick EXCEPT ![t] =
                     [returned |-> TRUE, result |-> a, calls |-> <<>>,
                      context |-> last_analysis, called |-> an_current_time[t]]]
              /\ UNCHANGED <<last_analysis, last_analysis_time, is_running>>
    /\ an_pc' = [an_pc EXCEPT ![t] = "an_loop"]
    /\ an_current_time' = [an_current_time EXCEPT ![t] = 0]
    /\ an_request' = [an_request EXCEPT ![t] = NoRequest]
    /\ UNCHANGED <<extVars, pipeVars, capVars, engineVars, appended, audio_pc, now, threadVars, hostVars, histVars,
                   analysis_thread, current_transcript, analysis_callbacks,
                   anHostVars>>

AnalysisLoop(t) ==
    \/ AnLoopCheck(t)
    \/ AnCallReturns(t)

NextAnalyzer ==
    \/ Tick
    \/ AnStartRunning
    \/ AnStartFlag
    \/ AnStartSpawn
    \/ AnStopFlag
    \/ AnJoinEnded
    \/ AnJoinTimeout
    \/ UpdateTranscript
    \/ \E t \in Loops : AnalysisLoop(t)

SpecAnalyzer == Init /\ [][NextAnalyzer]_vars

(***************************************************************************)
(* AudioCapture: start_recording() and stop_recording() called by the host *)
(* thread, _record_loop run by one thread per start_recording().           *)
(***************************************************************************)
\* start_recording() while recording: `if self.is_recording: return`
CapStartRunning ==
    /\ cap_pc = "idle"
    /\ is_recording
    /\ \E arg \in {NoDevice} \cup (0..(MaxDevices - 1)) :
         start_call' = [arg |-> arg, device_index |-> arg, outcome |-> "ignored"]
    /\ UNCHANGED <<extVars, pipeVars, engineVars, envVars, threadVars, hostVars, histVars, anVars,
                   captureVars, capThreadVars, capHostVars, device_info, default_input>>

\* start_recording(device_index): `if device_index is None: device_index =
\* self.get_default_device()`; self.is_recording = True; self.frames = []
CapStartFlag ==
    /\ cap_pc = "idle"
    /\ ~is_recording
    /\ cap_sessions < MaxSessions
    /\ \E arg \in {NoDevice} \cup (0..(MaxDevices - 1)) :
         start_call' =
            [arg |-> arg,
             device_index |-> IF arg = NoDevice
                              THEN get_default_device(device_info, default_input)
                              ELSE arg,
             outcome |-> "pending"]
    /\ is_recording' = TRUE
    /\ frames' = <<>>
    /\ cap_pc' = "open"
    /\ UNCHANGED <<extVars, pipeVars, engineVars, envVars, threadVars, hostVars, histVars, anVars,
                   device_info, default_input,
                   stream, audio_callbacks, recording_thread, capThreadVars,
                   cap_sessions>>

\* start_recording(): the stream is opened, the callback registered and the
\* thread started
CapStartOpen ==
    /\ cap_pc = "open"
    /\ CanOpen(start_call.device_index)
    /\ start_call' = [start_call EXCEPT !.outcome = "opened"]
    /\ stream' = "active"
    /\ audio_callbacks' = Append(audio_callbacks, "on_audio_chunk")
    /\ cap_sessions' = cap_sessions + 1
    /\ recording_thread' = cap_sessions + 1
    /\ rec_pc' = [rec_pc EXCEPT ![cap_sessions + 1] = "loop"]
    /\ cap_pc' = "idle"
    /\ UNCHANGED <<extVars, pipeVars, engineVars, envVars, threadVars, hostVars, histVars, anVars,
                   device_info, default_input,
                   is_recording, frames, rec_tick>>

\* start_recording(): self.audio.open(...) raises, and so does start_recording
CapOpenFails ==
    /\ cap_pc = "open"
    /\ start_call' = [start_call EXCEPT !.outcome = "raised"]
    /\ cap_pc' = "idle"
    /\ UNCHANGED <<extVars, pipeVars, engineVars, envVars, threadVars, hostVars, histVars, anVars,
                   device_info, default_input,
                   captureVars, capThreadVars, cap_sessions>>

\* stop_recording(): self.is_recording = False; the join if the thread is alive
CapStopFlag ==
    /\ cap_pc = "idle"
    /\ is_recording' = FALSE
    /\ cap_pc' = IF recording_thread # 0 /\ rec_pc[recording_thread] # "dead"
                 THEN "join" ELSE "close"
    /\ UNCHANGED <<extVars, pipeVars, engineVars, envVars, threadVars, hostVars, histVars, anVars,
                   deviceVars,
                   stream, frames, audio_callbacks, recording_thread, capThreadVars,
                   cap_sessions>>

\* self.recording_thread.join(timeout=3) returns because the thread ended
CapJoinEnded ==
    /\ cap_pc = "join"
    /\ rec_pc[recording_thread] = "dead"
    /\ cap_pc' = "close"
    /\ UNCHANGED <<extVars, pipeVars, engineVars, envVars, threadVars, hostVars, histVars, anVars,
                   deviceVars,
                   captureVars, capThreadVars, cap_sessions>>

\* join(timeout=3) returns because 3 seconds passed: the thread is blocked in
\* the read or in a callback
CapJoinTimeout ==
    /\ cap_pc = "join"
    /\ rec_pc[recording_thread] = "read"
    /\ cap_pc' = "close"
    /\ UNCHANGED <<extVars, pipeVars, engineVars, envVars, threadVars, hostVars, histVars, anVars,
                   deviceVars,
                   captureVars, capThreadVars, cap_sessions>>

\* stop_recording(): the stream stopped, closed and set to None; self.callbacks = []
CapClose ==
    /\ cap_pc = "close"
    /\ stream' = NoStream
    /\ audio_callbacks' = <<>>
    /\ cap_pc' = "idle"
    /\ UNCHANGED <<extVars, pipeVars, engineVars, envVars, threadVars, hostVars, histVars, anVars,
                   deviceVars,
                   is_recording, frames, recording_thread, capThreadVars,
                   cap_sessions>>

\* `while self.is_recording:` and `if self.stream and self.stream.is_active()`;
\* time.sleep(0.01) when there is no active stream
RecLoopCheck(t) ==
    /\ rec_pc[t] = "loop"
    /\ IF ~is_recording
       THEN rec_pc' = [rec_pc EXCEPT ![t] = "dead"]
       ELSE IF stream = "active"
       THEN rec_pc' = [rec_pc EXCEPT ![t] = "read"]
       ELSE UNCHANGED rec_pc
    /\ UNCHANGED <<extVars, pipeVars, engineVars, envVars, threadVars, hostVars, histVars, anVars,
                   deviceVars,
                   captureVars, rec_tick, capHostVars>>

\* self.stream.read(...) raises: `except Exception: print(...); break`
ReadFails(t) ==
    /\ rec_pc[t] = "read"
    /\ rec_tick' = [rec_tick EXCEPT ![t] = [outcome |-> "error", calls |-> <<>>]]
    /\ rec_pc' = [rec_pc EXCEPT ![t] = "dead"]
    /\ UNCHANGED <<extVars, pipeVars, engineVars, envVars, threadVars, hostVars, histVars, anVars,
                   deviceVars,
                   captureVars, capHostVars>>

\* self.stream.read(...) returns a chunk: self.frames.append(audio_data) and the
\* callbacks, each in its own try/except
ReadReturns(t) ==
    /\ rec_pc[t] = "read"
    /\ Len(frames) < MaxChunks
    /\ LET chunk == Len(frames) + 1 IN
         /\ frames' = Append(frames, chunk)
         /\ \E does \in [1..Len(audio_callbacks) -> {"returns", "raises"}] :
              rec_tick' = [rec_tick EXCEPT ![t] =
                 [outcome |-> "data", calls |-> Dispatch(audio_callbacks, chunk, does)]]
    /\ rec_pc' = [rec_pc EXCEPT ![t] = "loop"]
    /\ UNCHANGED <<extVars, pipeVars, engineVars, envVars, threadVars, hostVars, histVars, anVars,
                   deviceVars,
                   is_recording, stream, audio_callbacks, recording_thread,
                   capHostVars>>

RecordLoop(t) ==
    \/ RecLoopCheck(t)
    \/ ReadFails(t)
    \/ ReadReturns(t)

NextCapture ==
    \/ CapStartRunning
    \/ CapStartFlag
    \/ CapStartOpen
    \/ CapOpenFails
    \/ CapStopFlag
    \/ CapJoinEnded
    \/ CapJoinTimeout
    \/ CapClose
    \/ \E t \in Loops : RecordLoop(t)

SpecCapture == InitCapture /\ [][NextCapture]_vars

(***************************************************************************)
(* The pipeline of the main window during one recording: the worker sets   *)
(* its running flag and starts the engine, the main window starts the      *)
(* analyzer, the audio thread forwards chunks while the worker runs, and   *)
(* each segment_ready signal is delivered to on_transcription_segment on   *)
(* the main thread, which hands the full transcript to the analyzer. The   *)
(* model follows the recording up to, not including, stop_recording().     *)
(* Two faults of a pass are injected here: the WAV file cannot be built,   *)
(* and an exception is raised while the segment is built.                  *)
(***************************************************************************)
RECURSIVE get_full_transcript(_)
\* get_full_transcript(False): "" without segments, else "\n".join of the texts
get_full_transcript(segs) ==
    IF segs = <<>> THEN <<>>
    ELSE IF Len(segs) = 1 THEN segs[1].text
    ELSE segs[1].text \o <<NL>> \o get_full_transcript(Tail(segs))

\* TranscriptionWorker.run(): self.running = True
WorkerRun ==
    /\ pc[Host] = "idle"
    /\ sessions = 0
    /\ ~running
    /\ running' = TRUE
    /\ UNCHANGED <<extVars, engineVars, envVars, threadVars, hostVars, histVars, anVars,
                   capVars, segment_ready>>

\* TranscriptionWorker.run(): self.transcription_engine.start(on_segment=...)
WorkerStartsEngine ==
    /\ running
    /\ sessions = 0
    /\ StartFlag

\* MainWindow.start_recording(): self.realtime_analyzer.start(on_analysis=...)
WindowStartsAnalyzer ==
    /\ an_sessions = 0
    /\ AnStartFlag

\* TranscriptionWorker._on_audio_chunk: `if self.running:` add_audio_chunk(...)
WorkerForwardsChunk ==
    /\ running
    /\ AddAcquire

\* MainWindow.on_transcription_segment, for one delivered signal:
\* full_transcript = get_full_transcript(False); `if full_transcript:`
\* self.realtime_analyzer.update_transcript(full_transcript)
OnTranscriptionSegment ==
    /\ segment_ready > 0
    /\ segment_ready' = segment_ready - 1
    /\ LET full_transcript == get_full_transcript(segments) IN
         current_transcript' =
            IF full_transcript # <<>> THEN full_transcript ELSE current_transcript
    /\ UNCHANGED <<extVars, engineVars, envVars, threadVars, hostVars, histVars, capVars,
                   running, is_running, analysis_thread, last_analysis,
                   last_analysis_time, analysis_callbacks, anThreadVars, anHostVars>>

\* faulty variant of WavFails: the exception ends the loop thread
WavFailsEndsLoop(t) ==
    /\ pc[t] = "pb_locked"
    /\ audio_buffer # <<>>
    /\ ~TooShort(Drained(audio_buffer).data)
    /\ buffer_lock' = Free
    /\ audio_buffer' = Drained(audio_buffer).rest
    /\ drains' = Append(drains, [data |-> Drained(audio_buffer).data, by |-> t])
    /\ pass' = [pass EXCEPT ![t].clip = Drained(audio_buffer).data,
                            ![t].drained = TRUE, ![t].fault = "wav"]
    /\ pc' = [pc EXCEPT ![t] = "dead"]
    /\ UNCHANGED <<extVars, pipeVars, capVars, anVars, is_transcribing, transcription_thread,
                   segments, callbacks, start_time, last_transcription_time, envVars,
                   current_time, audio_data, attempt, text, timestamp, hostVars,
                   submitted, dropped>>

\* the drain of a clip that is long enough, and _create_wav_file returns None
\* (its own except): `if audio_file is None: return`
WavFails(t) ==
    /\ pc[t] = "pb_locked"
    /\ audio_buffer # <<>>
    /\ ~TooShort(Drained(audio_buffer).data)
    /\ buffer_lock' = Free
    /\ audio_buffer' = Drained(audio_buffer).rest
    /\ drains' = Append(drains, [data |-> Drained(audio_buffer).data, by |-> t])
    /\ pass' = [pass EXCEPT ![t].clip = Drained(audio_buffer).data,
                            ![t].drained = TRUE, ![t].fault = "wav"]
    /\ pc' = [pc EXCEPT ![t] = ReturnPc(t)]
    /\ UNCHANGED <<extVars, pipeVars, capVars, anVars, is_transcribing, transcription_thread,
                   segments, callbacks, start_time, last_transcription_time, envVars,
                   current_time, audio_data, attempt, text, timestamp, hostVars,
                   submitted, dropped>>

\* an exception between the return of the service and self.segments.append:
\* caught by `except Exception` of _process_buffer, which returns
ProcessingRaises(t) ==
    /\ pc[t] = "append"
    /\ pass' = [pass EXCEPT ![t].fault = "processing"]
    /\ pc' = [pc EXCEPT ![t] = ReturnPc(t)]
    /\ DropLocals(t)
    /\ UNCHANGED <<extVars, pipeVars, capVars, anVars, engineVars, envVars, current_time,
                   hostVars, drains, submitted, dropped>>

NextPipeline ==
    \/ Tick
    \/ WorkerRun
    \/ WorkerStartsEngine
    \/ StartSpawn
    \/ WindowStartsAnalyzer
    \/ AnStartSpawn
    \/ WorkerForwardsChunk
    \/ AddAppend
    \/ OnTranscriptionSegment
    \/ \E t \in Loops : ProcessBuffer(t)
    \/ \E t \in Loops : TranscriptionLoop(t)
    \/ \E t \in Loops : WavFails(t)
    \/ \E t \in Loops : ProcessingRaises(t)
    \/ \E t \in Loops : AnalysisLoop(t)

SpecPipeline == Init /\ [][NextPipeline]_vars

(***************************************************************************)
(* Recordings of the main window one after the other: each recording has   *)
(* its own worker, which sets its running flag and starts the engine, and  *)
(* whose stop() clears the flag, stops the engine and then the capture.    *)
(* The audio thread forwards a chunk when it finds the flag set.           *)
(***************************************************************************)
\* TranscriptionWorker.run() of the worker of a new recording, the stop
\* sequence of the recording before it having returned: self.running = True
WorkerRunAt ==
    /\ pc[Host] = "idle"
    /\ ~running
    /\ quiet_since # NoTime
    /\ sessions < MaxSessions
    /\ running' = TRUE
    /\ epoch' = Len(appended)
    /\ UNCHANGED <<engineVars, envVars, threadVars, hostVars, histVars, anVars, capVars,
                   segment_ready, sessionVars, storeVars, exportVars, levelVars,
                   oldest, span>>

\* TranscriptionWorker.run(): self.transcription_engine.start(on_segment=...)
WorkerRunStartsEngine ==
    /\ running
    /\ quiet_since # NoTime
    /\ StartFlag

\* TranscriptionWorker.stop(): self.running = False
WorkerStop ==
    /\ pc[Host] = "idle"
    /\ running
    /\ quiet_since = NoTime
    /\ running' = FALSE
    /\ UNCHANGED <<extVars, engineVars, envVars, threadVars, hostVars, histVars, anVars,
                   capVars, segment_ready>>

\* TranscriptionWorker.stop(): self.transcription_engine.stop()
WorkerStopsEngine ==
    /\ ~running
    /\ quiet_since = NoTime
    /\ StopFlag

NextHandover ==
    \/ Tick
    \/ WorkerRunAt
    \/ WorkerRunStartsEngine
    \/ StartSpawn
    \/ WorkerForwardsChunk
    \/ AddAppend
    \/ WorkerStop
    \/ WorkerStopsEngine
    \/ JoinEnded
    \/ JoinTimeout
    \/ FinalCheck
    \/ StopReturn
    \/ \E t \in Threads : ProcessBuffer(t)
    \/ \E t \in Loops : TranscriptionLoop(t)

SpecHandover == Init /\ [][NextHandover]_vars

(***************************************************************************)
(* The host's calls of start() and stop() on the three components, in any  *)
(* order and any number of times, with no audio delivered: the loop        *)
(* threads only look at their flags, and a recording thread that has       *)
(* entered stream.read() stays there.                                      *)
(***************************************************************************)
NextLifecycle ==
    \/ StartRunning
    \/ StartFlag
    \/ StartSpawn
    \/ StopFlag
    \/ JoinEnded
    \/ FinalCheck
    \/ StopReturn
    \/ AnStartRunning
    \/ AnStartFlag
    \/ AnStartSpawn
    \/ AnStopFlag
    \/ AnJoinEnded
    \/ CapStartRunning
    \/ CapStartFlag
    \/ CapStartOpen
    \/ CapOpenFails
    \/ CapStopFlag
    \/ CapJoinEnded
    \/ CapClose
    \/ \E t \in Loops : LoopCheck(t)
    \/ \E t \in Loops : AnLoopCheck(t)
    \/ \E t \in Loops : RecLoopCheck(t)

SpecLifecycle == Init /\ [][NextLifecycle]_vars

(***************************************************************************)
(* The start sequence of a session in the command line program (main) and  *)
(* in the Tk window (_recording_thread): the engine is started first, the  *)
(* capture second, and a failure of start_recording() is reported by the   *)
(* except clause around it. The model follows one start sequence and the   *)
(* recording after it.                                                     *)
(***************************************************************************)
\* transcription_engine.start(on_segment=...)
SessionStartsEngine ==
    /\ sessions = 0
    /\ StartFlag

\* audio_capture.start_recording(device_index=..., on_audio_chunk=...), called
\* after transcription_engine.start() has returned
SessionStartsCapture ==
    /\ pc[Host] = "idle"
    /\ sessions = 1
    /\ CapStartFlag

\* `except Exception as e:` around start_recording(): the failure is reported
\* (printed by main, queued as ('error', ...) by the Tk window)
SessionReportsFailure ==
    /\ cap_pc = "idle"
    /\ is_recording
    /\ stream = NoStream
    /\ ~start_error
    /\ start_error' = TRUE
    /\ UNCHANGED <<engineVars, envVars, threadVars, hostVars, histVars, anVars, capVars,
                   pipeVars, storeVars, pureVars>>

\* on_audio_chunk = lambda chunk: transcription_engine.add_audio_chunk(chunk),
\* invoked while a record loop runs
SessionForwardsChunk ==
    /\ \E t \in Loops : rec_pc[t] \in {"loop", "read"}
    /\ AddAcquire

NextSession ==
    \/ Tick
    \/ SessionStartsEngine
    \/ StartSpawn
    \/ SessionStartsCapture
    \/ CapStartOpen
    \/ CapOpenFails
    \/ SessionReportsFailure
    \/ SessionForwardsChunk
    \/ AddAppend
    \/ \E t \in Loops : RecordLoop(t)
    \/ \E t \in Loops : ProcessBuffer(t)
    \/ \E t \in Loops : TranscriptionLoop(t)

SpecSession == Init /\ [][NextSession]_vars

(***************************************************************************)
(* The Transcript Store read while it changes. self.segments is a          *)
(* reference to a list object: append() changes the object it was called   *)
(* on, `self.segments = []` (clear_segments, start) makes the attribute    *)
(* refer to a new empty list, and a for loop goes on over the object it    *)
(* started with, seeing what is appended to it meanwhile. One thread       *)
(* appends (line 171 of a pass: the attribute is loaded, then append is    *)
(* called), one clears, one reads. `segments` is kept equal to the content *)
(* of the list the attribute refers to.                                    *)
(***************************************************************************)
\* the text of the k-th segment made
SegText(k) == <<CH, IF k % 2 = 1 THEN SP ELSE NL, CH>> \o [j \in 1..k |-> CH]

\* the k-th segment made
StoreSegment(k) == [text |-> SegText(k), timestamp |-> k, duration |-> 1]

RECURSIVE JoinLines(_)
\* "\n".join(lines)
JoinLines(lines) ==
    IF lines = <<>> THEN <<>>
    ELSE IF Len(lines) = 1 THEN lines[1]
    ELSE lines[1] \o <<NL>> \o JoinLines(Tail(lines))

\* the store's content is noted while a read is in progress
Seen(content) == IF rd.pc \in {"idle", "done"} THEN rd_seen ELSE rd_seen \cup {content}

\* self.segments.append(segment), first half: the attribute is loaded
StoreLoad ==
    /\ ap_ref = 0
    /\ made < MaxSegs
    /\ ap_ref' = segments_ref
    /\ UNCHANGED <<engineVars, envVars, threadVars, hostVars, histVars, anVars, capVars,
                   pipeVars, sessionVars, pureVars, lists, segments_ref, made, rd, rd_seen>>

\* self.segments.append(segment), second half: append on the loaded list
StoreAppend ==
    /\ ap_ref # 0
    /\ LET new == Append(lists[ap_ref], StoreSegment(made + 1)) IN
         /\ lists' = [lists EXCEPT ![ap_ref] = new]
         /\ IF ap_ref = segments_ref
            THEN segments' = new /\ rd_seen' = Seen(new)
            ELSE UNCHANGED <<segments, rd_seen>>
    /\ made' = made + 1
    /\ ap_ref' = 0
    /\ UNCHANGED <<is_transcribing, audio_buffer, buffer_lock, transcription_thread,
                   callbacks, start_time, last_transcription_time, envVars, threadVars,
                   hostVars, histVars, anVars, capVars, pipeVars, sessionVars, pureVars,
                   segments_ref, rd>>

\* faulty variant of StoreClear: the oldest segment is removed from the list
StoreClearOldest ==
    /\ segments_ref < MaxLists
    /\ segments # <<>>
    /\ lists' = [lists EXCEPT ![segments_ref] = Tail(@)]
    /\ segments' = Tail(segments)
    /\ rd_seen' = Seen(Tail(segments))
    /\ UNCHANGED <<is_transcribing, audio_buffer, buffer_lock, transcription_thread,
                   callbacks, start_time, last_transcription_time, envVars, threadVars,
                   hostVars, histVars, anVars, capVars, pipeVars, sessionVars, pureVars,
                   segments_ref, ap_ref, made, rd>>

\* clear_segments(), and line 86 of start(): self.segments = []
StoreClear ==
    /\ segments_ref < MaxLists
    /\ segments_ref' = segments_ref + 1
    /\ segments' = <<>>
    /\ rd_seen' = Seen(<<>>)
    /\ UNCHANGED <<is_transcribing, audio_buffer, buffer_lock, transcription_thread,
                   callbacks, start_time, last_transcription_time, envVars, threadVars,
                   hostVars, histVars, anVars, capVars, pipeVars, sessionVars, pureVars,
                   lists, ap_ref, made, rd>>

\* a read begins: get_full_transcript(False) or get_segments()
ReadBegin ==
    /\ rd.pc = "idle"
    /\ \E kind \in {"transcript", "copy"} :
         rd' = [NoReader EXCEPT !.pc = IF kind = "copy" THEN "copy" ELSE "check",
                                !.kind = kind]
    /\ rd_seen' = {lists[segments_ref]}
    /\ UNCHANGED <<engineVars, envVars, threadVars, hostVars, histVars, anVars, capVars,
                   pipeVars, sessionVars, pureVars, lists, segments_ref, ap_ref, made>>

\* get_segments(): return self.segments.copy()
ReadCopy ==
    /\ rd.pc = "copy"
    /\ rd' = [rd EXCEPT !.pc = "done", !.result = lists[segments_ref]]
    /\ UNCHANGED <<engineVars, envVars, threadVars, hostVars, histVars, anVars, capVars,
                   pipeVars, sessionVars, pureVars, lists, segments_ref, ap_ref, made, rd_seen>>

\* get_full_transcript: `if not self.segments: return ""`
ReadCheck ==
    /\ rd.pc = "check"
    /\ rd' = IF lists[segments_ref] = <<>>
             THEN [rd EXCEPT !.pc = "done", !.result = <<>>]
             ELSE [rd EXCEPT !.pc = "for"]
    /\ UNCHANGED <<engineVars, envVars, threadVars, hostVars, histVars, anVars, capVars,
                   pipeVars, sessionVars, pureVars, lists, segments_ref, ap_ref, made, rd_seen>>

\* get_full_transcript: `for segment in self.segments:` the attribute is
\* loaded and the iteration begins
ReadFor ==
    /\ rd.pc = "for"
    /\ rd' = [rd EXCEPT !.pc = "next", !.ref = segments_ref, !.i = 0]
    /\ UNCHANGED <<engineVars, envVars, threadVars, hostVars, histVars, anVars, capVars,
                   pipeVars, sessionVars, pureVars, lists, segments_ref, ap_ref, made, rd_seen>>

\* get_full_transcript: one step of the for loop, lines.append(segment.text),
\* or its end and `return "\n".join(lines)`
ReadNext ==
    /\ rd.pc = "next"
    /\ rd' = IF rd.i < Len(lists[rd.ref])
             THEN [rd EXCEPT !.i = rd.i + 1,
                             !.lines = Append(rd.lines, lists[rd.ref][rd.i + 1].text)]
             ELSE [rd EXCEPT !.pc = "done", !.result = JoinLines(rd.lines)]
    /\ UNCHANGED <<engineVars, envVars, threadVars, hostVars, histVars, anVars, capVars,
                   pipeVars, sessionVars, pureVars, lists, segments_ref, ap_ref, made, rd_seen>>

\* the read has returned
ReadReturn ==
    /\ rd.pc = "done"
    /\ rd' = NoReader
    /\ rd_seen' = {}
    /\ UNCHANGED <<engineVars, envVars, threadVars, hostVars, histVars, anVars, capVars,
                   pipeVars, sessionVars, pureVars, lists, segments_ref, ap_ref, made>>

NextStore ==
    \/ StoreLoad
    \/ StoreAppend
    \/ StoreClear
    \/ ReadBegin
    \/ ReadCopy
    \/ ReadCheck
    \/ ReadFor
    \/ ReadNext
    \/ ReadReturn

SpecStore == Init /\ [][NextStore]_vars

(***************************************************************************)
(* The renderings of the Transcript Store: get_full_transcript and         *)
(* export_transcript, applied to a store drawn from a bounded set. Texts   *)
(* are sequences of characters. A datetime is counted in ticks of half a   *)
(* millisecond from midnight of the first day, and so is a timedelta.      *)
(***************************************************************************)
\* ticks in one second, and microseconds in one tick
TicksPerSecond == 2000
MicrosPerTick == 500

\* the decimal digits
Digits == <<"0", "1", "2", "3", "4", "5", "6", "7", "8", "9">>

RECURSIVE Dec(_)
\* str(n) of an integer n >= 0
Dec(n) == IF n < 10 THEN <<Digits[n + 1]>> ELSE Dec(n \div 10) \o <<Digits[(n % 10) + 1]>>

\* f"{n:0wd}": the sign, then zeros up to the width w, then the digits
ZeroPad(n, w) ==
    LET sign == IF n < 0 THEN <<"-">> ELSE <<>>
        body == Dec(IF n < 0 THEN -n ELSE n)
        fill == w - Len(sign) - Len(body)
    IN  sign \o [k \in 1..(IF fill > 0 THEN fill ELSE 0) |-> "0"] \o body

\* datetime.strftime('%H:%M:%S')
strftime(ts) ==
    LET second_of_day == (ts \div TicksPerSecond) % 86400 IN
      ZeroPad(second_of_day \div 3600, 2) \o <<":">>
      \o ZeroPad((second_of_day % 3600) \div 60, 2) \o <<":">>
      \o ZeroPad(second_of_day % 60, 2)

\* faulty variant of TranscriptLine: the text is put before the time
TranscriptLineSwapped(segment, include_timestamps) ==
    IF include_timestamps
    THEN segment.text \o <<SP, "[">> \o strftime(segment.timestamp) \o <<"]">>
    ELSE segment.text \o <<SP>>

\* one line of get_full_transcript: f"[{time_str}] {segment.text}", or segment.text
TranscriptLine(segment, include_timestamps) ==
    IF include_timestamps
    THEN <<"[">> \o strftime(segment.timestamp) \o <<"]", SP>> \o segment.text
    ELSE segment.text

\* get_full_transcript(include_timestamps): "" without segments, else the
\* lines of the segments joined by "\n"
FullTranscript(segs, include_timestamps) ==
    IF segs = <<>> THEN <<>>
    ELSE JoinLines([i \in 1..Len(segs) |-> TranscriptLine(segs[i], include_timestamps)])

\* a call of get_full_transcript
GetFullTranscript ==
    /\ \E include_timestamps \in BOOLEAN :
         out' = [op |-> "get_full_transcript",
                 arg |-> IF include_timestamps THEN "True" ELSE "False",
                 status |-> "ok",
                 value |-> FullTranscript(segments, include_timestamps)]
    /\ UNCHANGED <<coreVars, sessionVars, storeVars, levelVars, timingVars, file>>

\* int(td.total_seconds()): the whole seconds of a timedelta, rounded towards 0
total_seconds(td) ==
    IF td >= 0 THEN td \div TicksPerSecond ELSE -((-td) \div TicksPerSecond)

\* td.microseconds: the microseconds field of the normalised timedelta,
\* which lies in 0..999999 whatever the sign of td
microseconds(td) == (td % TicksPerSecond) * MicrosPerTick

\* _format_srt_time(td): HH:MM:SS,mmm from int(td.total_seconds()) by //
\* and %, and from int(td.microseconds / 1000)
format_srt_time(td) ==
    LET hours == total_seconds(td) \div 3600
        minutes == (total_seconds(td) % 3600) \div 60
        seconds == total_seconds(td) % 60
        milliseconds == microseconds(td) \div 1000
    IN  ZeroPad(hours, 2) \o <<":">> \o ZeroPad(minutes, 2) \o <<":">>
        \o ZeroPad(seconds, 2) \o <<",">> \o ZeroPad(milliseconds, 3)

\* the four lines of entry i of _export_srt: the index, the times, the text
\* and an empty line
SrtEntry(segs, started, i) ==
    LET start == IF started # NoTime THEN segs[i].timestamp - started ELSE 0
        end == start + segs[i].duration
    IN  <<Dec(i),
          format_srt_time(start) \o <<SP, "-", "-", ">", SP>> \o format_srt_time(end),
          segs[i].text,
          <<>>>>

RECURSIVE SrtLines(_, _, _)
\* the lines of the first n entries
SrtLines(segs, started, n) ==
    IF n = 0 THEN <<>> ELSE SrtLines(segs, started, n - 1) \o SrtEntry(segs, started, n)

\* _export_srt: "\n".join(lines)
export_srt(segs, started) == JoinLines(SrtLines(segs, started, Len(segs)))

\* _export_txt: get_full_transcript(include_timestamps=True)
export_txt(segs) == FullTranscript(segs, TRUE)

RECURSIVE json_string(_)
\* json.dumps of the characters of a str: a quotation mark and a backslash get
\* a backslash in front
json_string(chars) ==
    IF chars = <<>> THEN <<>>
    ELSE (IF Head(chars) \in {"\"", "\\"} THEN <<"\\", Head(chars)>> ELSE <<Head(chars)>>)
         \o json_string(Tail(chars))

\* json.dumps of a str
json_str(chars) == <<"\"">> \o json_string(chars) \o <<"\"">>

RECURSIVE StripZeros(_)
\* the digits without their trailing zeros, one digit at least
StripZeros(digits) ==
    IF Len(digits) > 1 /\ digits[Len(digits)] = "0"
    THEN StripZeros(SubSeq(digits, 1, Len(digits) - 1))
    ELSE digits

\* json.dumps of a float of seconds (float.__repr__), d in ticks: the whole
\* seconds, a point and the fraction
float_repr(d) ==
    LET a == IF d < 0 THEN -d ELSE d
        fraction == ((a % TicksPerSecond) * MicrosPerTick) \div 100
    IN  (IF d < 0 THEN <<"-">> ELSE <<>>)
        \o Dec(a \div TicksPerSecond) \o <<".">> \o StripZeros(ZeroPad(fraction, 4))

\* faulty variant of isoformat: the fraction of the second is never written
isoformat_seconds(ts) ==
    <<"2", "0", "2", "4", "-", "0", "1", "-">>
    \o ZeroPad(ts \div (86400 * TicksPerSecond) + 1, 2)
    \o <<"T">> \o strftime(ts)

\* datetime.isoformat(): YYYY-MM-DDTHH:MM:SS, and .ffffff when the microsecond
\* is not 0; tick 0 is midnight of 2024-01-01, and ts is within that month
isoformat(ts) ==
    <<"2", "0", "2", "4", "-", "0", "1", "-">>
    \o ZeroPad(ts \div (86400 * TicksPerSecond) + 1, 2)
    \o <<"T">> \o strftime(ts)
    \o (IF microseconds(ts) = 0 THEN <<>> ELSE <<".">> \o ZeroPad(microseconds(ts), 6))

\* json.dumps of None
json_null == <<"n", "u", "l", "l">>

\* TranscriptionSegment.to_dict(), each value as json.dumps writes it
to_dict(segment) ==
    [text |-> json_str(segment.text),
     timestamp |-> json_str(isoformat(segment.timestamp)),
     duration |-> float_repr(segment.duration),
     speaker |-> json_null]

\* get_duration(): the seconds since start_time, 0.0 on an engine never started
get_duration(started) == IF started = NoTime THEN 0 ELSE now - started

\* _export_json: the document written, each value as json.dumps writes it
export_json(segs, started) ==
    [start_time |-> IF started = NoTime THEN json_null ELSE json_str(isoformat(started)),
     duration |-> float_repr(get_duration(started)),
     segments |-> [i \in 1..Len(segs) |-> to_dict(segs[i])]]

\* the formats export_transcript can be asked for
Formats == {"txt", "json", "srt", "pdf"}

\* faulty variant of export_transcript: a format that is not known is written
\* as text
export_transcript_default(format, old) ==
    IF format = "json"
    THEN [status |-> "ok",
          file |-> [format |-> "json", text |-> <<>>,
                    json |-> export_json(segments, start_time)]]
    ELSE IF format = "srt"
    THEN [status |-> "ok",
          file |-> [format |-> "srt", text |-> export_srt(segments, start_time),
                    json |-> NoJson]]
    ELSE [status |-> "ok",
          file |-> [format |-> "txt", text |-> export_txt(segments), json |-> NoJson]]

\* export_transcript(filepath, format): what it returns or raises, and the file
\* at filepath afterwards, old being the file before
export_transcript(format, old) ==
    IF format = "txt"
    THEN [status |-> "ok",
          file |-> [format |-> "txt", text |-> export_txt(segments), json |-> NoJson]]
    ELSE IF format = "json"
    THEN [status |-> "ok",
          file |-> [format |-> "json", text |-> <<>>,
                    json |-> export_json(segments, start_time)]]
    ELSE IF format = "srt"
    THEN [status |-> "ok",
          file |-> [format |-> "srt", text |-> export_srt(segments, start_time),
                    json |-> NoJson]]
    ELSE [status |-> "ValueError", file |-> old]

\* a call of export_transcript
ExportTranscript ==
    /\ \E format \in Formats :
         /\ out' = [op |-> "export_transcript", arg |-> format,
                    status |-> export_transcript(format, file).status, value |-> <<>>]
         /\ file' = export_transcript(format, file).file
    /\ UNCHANGED <<coreVars, sessionVars, storeVars, levelVars, timingVars>>

\* the texts, timestamps and durations a stored segment can have: a text is
\* stripped and not empty; a duration is positive
ExportTexts == {<<CH>>, <<CH, SP, "\"", "\\">>}
Instants ==
    {0,
     3599 * TicksPerSecond + 1999,
     36000 * TicksPerSecond,
     (86400 + 3661) * TicksPerSecond + 3}
Durations == {1, 5 * TicksPerSecond}
ExportSegments ==
    [text : ExportTexts, timestamp : Instants, duration : Durations]

\* an engine whose store holds up to MaxExport segments; a segment can be
\* older than start_time (its pass took the timestamp before a start() that
\* followed a timed-out stop()), and start_time is None when stop() made its
\* final pass on an engine that was never started
InitExport ==
    \E n \in 0..MaxExport :
      \E segs \in [1..n -> ExportSegments] :
        \E started \in {NoTime} \cup Instants :
          InitWith(<<1>>, 0, segs, started)

NextExport ==
    \/ GetFullTranscript
    \/ ExportTranscript

SpecExport == InitExport /\ [][NextExport]_vars

(***************************************************************************)
(* The audio level.  A chunk is a sequence of signed 16-bit samples; the   *)
(* float get_audio_level returns is kept exact: it is                      *)
(* min(sqrt(mean_num / mean_den) / 32768, 1.0), or nan.                    *)
(***************************************************************************)
\* the value a numpy int16 holds after an operation whose exact result is v
int16(v) == ((v + 32768) % 65536) - 32768

\* sample values a chunk can hold
Samples == {0, 100, 200, 32767, -32768}

RECURSIVE SeqSum(_)
\* np.mean's sum, kept in a float64: exact
SeqSum(values) == IF values = <<>> THEN 0 ELSE Head(values) + SeqSum(Tail(values))

\* get_audio_level(): 0.0 without frames; else audio_array**2 is an int16 array,
\* rms = sqrt(mean), and min(rms / 32768.0, 1.0), which is nan when rms is nan
get_audio_level(frames_now, chunk) ==
    IF frames_now = <<>>
    THEN [called |-> TRUE, frames_empty |-> TRUE, last_chunk |-> <<>>, nan |-> FALSE,
          mean_num |-> 0, mean_den |-> 1, clamped |-> FALSE]
    ELSE LET squares == [k \in 1..Len(chunk) |-> int16(chunk[k] * chunk[k])]
             total == SeqSum(squares)
             n == Len(chunk)
         IN  [called |-> TRUE, frames_empty |-> FALSE, last_chunk |-> chunk,
              nan |-> total < 0,
              mean_num |-> IF total < 0 THEN 0 ELSE total,
              mean_den |-> n,
              clamped |-> /\ total >= 0
                          /\ \/ total \div n > 32768 * 32768
                             \/ total \div n = 32768 * 32768 /\ total % n > 0]

\* the record loop reads a chunk from the stream and appends it to the frames
StreamRead ==
    /\ Len(frames) < MaxChunks
    /\ frames' = Append(frames, Len(frames) + 1)
    /\ \E chunk \in [1..chunk_size -> Samples] : last_chunk' = chunk
    /\ UNCHANGED <<engineVars, envVars, threadVars, hostVars, histVars, anVars, pipeVars,
                   sessionVars, storeVars, exportVars, timingVars, level,
                   capThreadVars, capHostVars, deviceVars,
                   is_recording, stream, audio_callbacks, recording_thread>>

\* a call of get_audio_level
GetAudioLevel ==
    /\ level' = get_audio_level(frames, last_chunk)
    /\ UNCHANGED <<coreVars, sessionVars, storeVars, exportVars, timingVars, last_chunk>>

NextLevel ==
    \/ StreamRead
    \/ GetAudioLevel

SpecLevel == Init /\ [][NextLevel]_vars

(***************************************************************************)
(* Properties of the engine.                                               *)
(***************************************************************************)
\* the audio of the drains so far, in drain order
DrainData == [i \in 1..Len(drains) |-> drains[i].data]

\* chunk k is part of the clip
ChunkIn(k, data) == \E i \in 1..Len(data) : data[i] = k

\* the text holds a character that is not whitespace
NonBlank(r) == r # NoText /\ \E i \in 1..Len(r) : r[i] \notin {SP, NL}

\* the text neither starts nor ends with whitespace
Trimmed(r) == r # <<>> /\ r[1] \notin {SP, NL} /\ r[Len(r)] \notin {SP, NL}

\* thread t has just returned from _process_buffer, or from stop()
PassEnded(t) == pc[t] = ReturnPc(t)

\* stop() was called on a running engine and is about to return
StopDone == pc[Host] = "stop_ret" /\ stop_mark.running

\* C1: the audio of all drains, in drain order, followed by the audio still in
\* audio_buffer, is the audio of all appended chunks in append order, and every
\* drain is a run of whole chunks: nothing lost, duplicated, reordered or split.
C1_ChunkConservation ==
    /\ Join(DrainData) \o Join(audio_buffer) = Join(appended)
    /\ \A i \in 1..Len(drains) :
         \E a \in 1..Len(appended) : \E b \in a..Len(appended) :
            drains[i].data = Join(SubSeq(appended, a, b))

\* C1 witness: two drains by different threads (the loop and stop()'s final pass)
C1_Witness ==
    /\ Len(drains) = 2
    /\ drains[1].by # drains[2].by
    /\ Len(appended) = MaxChunks
    /\ C1_ChunkConservation

NoPeriodicDrain == \A i \in 1..Len(drains) : drains[i].by = Host

\* stop() on a running engine with audio buffered and no periodic drain so far
C3_Case == StopDone /\ stop_mark.buffered > 0 /\ NoPeriodicDrain

\* drains and submissions since stop() was called
DrainsInStop == Len(drains) - stop_mark.drains
SubmissionsInStop == Len(submitted) - stop_mark.submitted

C4_DrainsSerialized == Cardinality({t \in Threads : pc[t] \in InPass}) <= 1

\* the loop threads that have been started and have not ended
LiveLoops == {t \in Loops : pc[t] \notin {"unborn", "dead"}}

\* C5 as claimed: at most one _transcription_loop thread is alive.
C5_OneLoop == Cardinality(LiveLoops) <= 1

\* C7 as claimed: segments is ordered by timestamp.
C7_SegmentsOrdered ==
    \A i \in 1..Len(segments) : \A j \in i..Len(segments) :
       segments[i].timestamp <= segments[j].timestamp

\* C8: a pass appends a segment exactly when it submitted a drain of at least
\* min_size and the service returned a text that is not blank; the stored text
\* is trimmed; without a segment no callback is invoked.
C8_SegmentIffText ==
    \A t \in Threads :
      /\ Len(pass[t].segs) <= 1
      /\ pass[t].segs # <<>> =>
           /\ pass[t].drained
           /\ Len(pass[t].clip) >= min_size
           /\ NonBlank(pass[t].response)
           /\ Trimmed(pass[t].segs[1].text)
           /\ \E a, b \in 0..Len(pass[t].response) :
                pass[t].response =
                   [i \in 1..a |-> SP] \o pass[t].segs[1].text \o [i \in 1..b |-> SP]
      /\ pass[t].segs = <<>> => pass[t].cbs = 0
      /\ (PassEnded(t) /\ pass[t].drained /\ Len(pass[t].clip) >= min_size
             /\ NonBlank(pass[t].response)) => Len(pass[t].segs) = 1

\* C8 witness: a pass ended with a segment, and the service had padded its text
C8_Witness ==
    \E t \in Threads :
      /\ PassEnded(t)
      /\ Len(pass[t].segs) = 1
      /\ pass[t].response = <<SP, CH, SP>>
      /\ pass[t].cbs > 0

LastAttemptFails(t) ==
    /\ pc[t] = "call"
    /\ attempt[t] = retry_count - 1
    /\ pass'[t].outcomes = Append(pass[t].outcomes, "err")

\* C10: when the last attempt of a loop's pass fails, the buffer, the segments
\* and is_transcribing are left as they are and the pass returns to the loop;
\* the loop then resets its drain time, stays alive and, at the next due check
\* with audio buffered, starts the next pass; dropped audio is never in the buffer.
C10_DroppedAndLoopGoesOn ==
    [][\A t \in Loops :
         /\ LastAttemptFails(t) =>
              /\ audio_buffer' = audio_buffer
              /\ segments' = segments
              /\ is_transcribing' = is_transcribing
              /\ pass'[t].segs = <<>>
              /\ pc'[t] = "set_last"
         /\ (pc[t] = "set_last" /\ pc'[t] # "set_last") => pc'[t] = "loop_check"
         /\ (pc[t] = "loop_check" /\ is_transcribing /\ audio_buffer # <<>>
               /\ now - last_transcription_time >= buffer_duration
               /\ <<pc[t], pass[t]>>' # <<pc[t], pass[t]>>) => pc'[t] = "pb_lock"
         /\ \A d \in dropped' :
              \A i \in 1..Len(d.clip) : ~ChunkIn(d.clip[i], Join(audio_buffer'))
      ]_vars

\* C10 witness: a loop that dropped a clip has drained again and got a segment
C10_Witness ==
    \E d \in dropped :
      /\ d.by \in Loops
      /\ pc[d.by] = "callbacks"
      /\ is_transcribing

\* thread t holds the lock over a buffer whose audio is shorter than min_size
ShortDrain(t) ==
    /\ pc[t] = "pb_locked"
    /\ audio_buffer # <<>>
    /\ Len(Join(audio_buffer)) < min_size

\* C11: a drain of less than min_size bytes empties the buffer and returns: no
\* service call, no segment, no callback, and segments, callbacks, start_time,
\* is_transcribing and last_transcription_time as they were (the loop resets its
\* drain time in its next step); a drain of exactly min_size bytes is submitted.
C11_ShortDrainIsSilent ==
    [][\A t \in Threads :
         /\ (ShortDrain(t) /\ pc'[t] # pc[t]) =>
              /\ audio_buffer' = <<>>
              /\ Len(drains') = Len(drains) + 1
              /\ submitted' = submitted
              /\ segments' = segments
              /\ callbacks' = callbacks
              /\ start_time' = start_time
              /\ is_transcribing' = is_transcribing
              /\ last_transcription_time' = last_transcription_time
              /\ pass'[t].outcomes = <<>>
              /\ pass'[t].segs = <<>>
              /\ pass'[t].cbs = 0
              /\ pc'[t] = ReturnPc(t)
         /\ (pc[t] = "pb_locked" /\ Len(Join(audio_buffer)) = min_size
               /\ pc'[t] # pc[t]) =>
              /\ Len(submitted') = Len(submitted) + 1
              /\ submitted'[Len(submitted')].frames = Join(audio_buffer)
              /\ pc'[t] = "call"
         /\ (pc[t] = "set_last" /\ pc'[t] # pc[t] /\ pass[t].drained
               /\ Len(pass[t].clip) < min_size) =>
              /\ last_transcription_time' = current_time[t]
              /\ UNCHANGED <<segments, callbacks, start_time, is_transcribing,
                             audio_buffer, submitted>>
      ]_vars

\* C11 witness: a loop's pass drained a clip shorter than min_size and returned
C11_Witness ==
    \E t \in Loops :
      /\ pc[t] = "set_last"
      /\ pass[t].drained
      /\ pass[t].clip # <<>>
      /\ Len(pass[t].clip) < min_size
      /\ audio_buffer = <<>>

\* C17: a thread holds buffer_lock only in the body of its `with` block, never
\* in the service call or the retry delay, and whoever holds it can release it
\* in its next step; so with a loop blocked in the service the audio thread gets
\* the lock as soon as it is free, and completes its append.
C17_LockNotHeldInService ==
    /\ \A t \in Threads : pc[t] \in SlowPcs => buffer_lock # t
    /\ \A t \in Threads : buffer_lock = t <=> pc[t] = "pb_locked"
    /\ buffer_lock = Audio <=> audio_pc = "locked"
    /\ \A t \in Threads : buffer_lock = t => ENABLED PBDrain(t)
    /\ buffer_lock = Audio => ENABLED AddAppend
    /\ ((\E t \in Threads : pc[t] \in SlowPcs) /\ buffer_lock = Free
          /\ audio_pc = "idle" /\ Len(appended) < MaxChunks) => ENABLED AddAcquire

\* C17 witness: the audio thread holds the lock while a loop is in the service
C17_Witness ==
    \E t \in Loops :
      /\ pc[t] \in SlowPcs
      /\ buffer_lock = Audio
      /\ audio_pc = "locked"

\* the host takes a step of a stop() that was called on an idle engine, and no
\* audio has been appended since the call
IdleStopStep ==
    /\ pc'[Host] # pc[Host]
    /\ stop_mark.idle \/ stop_mark'.idle
    /\ Len(appended') = (IF stop_mark.idle THEN stop_mark.appended ELSE Len(appended))

\* C12 as claimed: stop() on an engine that is not running, with no audio
\* appended since it stopped or was constructed, makes no pass over the buffer
\* and no service call and leaves segments, audio_buffer, callbacks and
\* is_transcribing as they are.
C12_IdleStopIsNoOp ==
    [][IdleStopStep =>
         /\ pc'[Host] \notin InPass
         /\ submitted' = submitted
         /\ segments' = segments
         /\ audio_buffer' = audio_buffer
         /\ callbacks' = callbacks
         /\ is_transcribing' = is_transcribing
      ]_vars

\* C13 as claimed: stop() called by the loop's own thread, from inside a
\* segment callback, does not fail.
C13_SelfStopReturns ==
    \A t \in Threads :
      \A i \in 1..Len(pass[t].calls) : pass[t].calls[i].outcome # "RuntimeError"

LiveAnalysisLoops == {t \in Loops : an_pc[t] \notin {"unborn", "dead"}}

\* C6 as claimed: at most one _analysis_loop thread is alive.
C6_OneAnalysisLoop == Cardinality(LiveAnalysisLoops) <= 1

\* C19: a loop thread that finds the transcript empty or blank starts no call of
\* the analysis service; every call in flight carries a transcript that is not
\* blank; last_analysis changes and analysis callbacks are invoked only in the
\* step in which a call returns.
C19_BlankTranscriptTick ==
    [][\A t \in Loops :
         /\ (an_pc[t] = "an_loop" /\ ~NonBlank(current_transcript)) =>
              /\ an_pc'[t] \in {"an_loop", "dead"}
              /\ an_request'[t] = NoRequest
              /\ an_tick'[t].calls = <<>> \/ an_tick'[t] = an_tick[t]
         /\ an_pc'[t] = "an_call" => NonBlank(an_request'[t].transcript)
         /\ (last_analysis' # last_analysis
               \/ (an_tick'[t] # an_tick[t] /\ an_tick'[t].calls # <<>>)) =>
              \E u \in Loops : an_pc[u] = "an_call" /\ an_pc'[u] = "an_loop"
      ]_vars

\* C19 witness: an analysis is due, the loop is at its check and the transcript
\* holds whitespace only, after an earlier analysis
C19_Witness ==
    \E t \in Loops :
      /\ an_pc[t] = "an_loop"
      /\ is_running
      /\ AnalysisDue(now, last_analysis_time)
      /\ current_transcript = <<SP>>
      /\ last_analysis # NoText
      /\ \A u \in Loops : an_pc[u] # "an_call"

\* the step in which the call of analyze_incremental by thread t returns
TickReturns(t) == an_pc[t] = "an_call" /\ an_pc'[t] = "an_loop"

\* the step in which thread t starts the call that follows a failed one
TickAfterFailure(t) ==
    /\ an_pc[t] = "an_loop" /\ an_pc'[t] = "an_call"
    /\ an_tick[t].returned
    /\ ~IsAnalysis(an_tick[t].result)

\* C21 as claimed: a tick whose call returns an analysis stores it in
\* last_analysis and invokes every registered callback with it; a tick whose
\* call returns no result leaves last_analysis alone and invokes no callback;
\* and the tick that follows a failed one submits, as previous analysis, the
\* value last_analysis had when the failed tick ended.
C21_TickOutcome ==
    [][\A t \in Loops :
         /\ TickReturns(t) =>
              IF IsAnalysis(an_tick'[t].result)
              THEN /\ last_analysis' = an_tick'[t].result
                   /\ Len(an_tick'[t].calls) = Len(analysis_callbacks)
                   /\ \A i \in 1..Len(analysis_callbacks) :
                        /\ an_tick'[t].calls[i].callback = analysis_callbacks[i]
                        /\ an_tick'[t].calls[i].value = an_tick'[t].result
              ELSE /\ last_analysis' = last_analysis
                   /\ an_tick'[t].calls = <<>>
         /\ TickAfterFailure(t) => an_request'[t].previous = an_tick[t].context
      ]_vars

(***************************************************************************)
(* Properties of the capture.                                              *)
(***************************************************************************)
\* C15 as claimed: a failed read does not end the read loop while
\* is_recording is True.
C15_ReadFailureTolerated ==
    [][\A t \in Loops :
         (rec_pc[t] = "read" /\ rec_tick'[t].outcome = "error" /\ is_recording') =>
            rec_pc'[t] = "loop"
      ]_vars

(***************************************************************************)
(* Properties of the pipeline.                                             *)
(***************************************************************************)
\* the main thread: it runs MainWindow.stop_recording(), hence
\* TranscriptionWorker.stop() and TranscriptionEngine.stop()
UIThread == Host

\* loop thread t of the engine, or of the analyzer, has been started and has
\* not ended
EngineLoopAlive(t) == pc[t] \notin {"unborn", "dead"}
AnalysisLoopAlive(t) == an_pc[t] \notin {"unborn", "dead"}

\* C14: a loop thread ends only at its `while` check with its running flag
\* False; a pass that fails (service error on the last attempt, no WAV file,
\* exception in processing) returns to the loop, which goes to its next check;
\* a call of the analysis service that fails returns to the analysis loop; and
\* no step of one loop changes the state of the other component.
C14_FailureStaysInTick ==
    [][\A t \in Loops :
         /\ (EngineLoopAlive(t) /\ pc'[t] = "dead") =>
              (pc[t] = "loop_check" /\ ~is_transcribing)
         /\ (pc[t] \in InPass /\ pc'[t] \notin InPass) => pc'[t] = "set_last"
         /\ (pc[t] = "set_last" /\ pc'[t] # pc[t]) => pc'[t] = "loop_check"
         /\ (AnalysisLoopAlive(t) /\ an_pc'[t] = "dead") =>
              (an_pc[t] = "an_loop" /\ ~is_running)
         /\ (an_pc[t] = "an_call" /\ an_pc'[t] # an_pc[t]) => an_pc'[t] = "an_loop"
         /\ (EngineLoopAlive(t) /\ <<pc[t], pass[t]>>' # <<pc[t], pass[t]>>) =>
              UNCHANGED anVars
         /\ (AnalysisLoopAlive(t) /\ <<an_pc[t], an_tick[t]>>' # <<an_pc[t], an_tick[t]>>) =>
              UNCHANGED <<engineVars, threadVars, histVars, segment_ready>>
      ]_vars

\* C14 witness: both flags are True, an engine loop is back at its check after
\* a pass that failed, and an analysis loop is back at its check after a call
\* that failed
C14_Witness ==
    \E t, u \in Loops :
      /\ is_transcribing /\ is_running
      /\ pc[t] = "loop_check"
      /\ \E d \in dropped : d.by = t
      /\ an_pc[u] = "an_loop"
      /\ an_tick[u].returned
      /\ an_tick[u].result = NoText

\* C18 as claimed: the main thread is never inside a call of the
\* transcription service or its retry delay.
C18_NoServiceCallOnUIThread == pc[UIThread] \notin SlowPcs

\* C20 as claimed: the transcript a due tick submits to the analysis service
\* is the full text of the segments in the store at that moment.
C20_SubmitsCurrentStore ==
    [][\A t \in Loops :
         (an_pc[t] = "an_loop" /\ an_pc'[t] = "an_call") =>
            an_request'[t].transcript = get_full_transcript(segments)
      ]_vars

(***************************************************************************)
(* Properties of the start sequence.                                       *)
(***************************************************************************)
\* the _record_loop threads that have been started and have not ended
LiveRecordLoops == {t \in Loops : rec_pc[t] \notin {"unborn", "dead"}}

\* C22 as claimed: when the failure to open the input device has been
\* reported, no transcription loop, record loop or analysis loop thread is
\* alive.
C22_NoTaskAtDeviceFailure ==
    start_error =>
       /\ LiveLoops = {}
       /\ LiveRecordLoops = {}
       /\ LiveAnalysisLoops = {}

(***************************************************************************)
(* Properties of the device selection.                                     *)
(***************************************************************************)
\* start_recording was called with no device named and went on to choose one
DefaultCall == start_call.arg = NoDevice /\ start_call.outcome \in {"pending", "opened", "raised"}

\* the lowest index among the devices with input channels
FirstInput == CHOOSE i \in InputIndices(device_info) : \A j \in InputIndices(device_info) : i <= j

\* C23 as claimed: a call of start_recording that names no device uses the
\* default input device when there is one, else the first input device of the
\* enumeration; when there is no input device the call raises, without
\* reaching the opening of a stream with no device.
C23_DeviceSelection ==
    DefaultCall =>
       /\ default_input # NoDevice => start_call.device_index = default_input
       /\ (default_input = NoDevice /\ InputIndices(device_info) # {}) =>
             start_call.device_index = FirstInput
       /\ InputIndices(device_info) = {} =>
             /\ cap_pc # "open"
             /\ start_call.outcome = "raised"
             /\ stream = NoStream

(***************************************************************************)
(* Properties of the Transcript Store.                                     *)
(***************************************************************************)
\* what a read of the given kind returns for a store with the given content
Rendering(kind, content) ==
    IF kind = "copy" THEN content ELSE get_full_transcript(content)

\* C24 as claimed: a read that runs while the store is appended to or cleared
\* returns the rendering of the content the store had at one instant between
\* the beginning and the end of the read.
C24_ReadIsSnapshot ==
    rd.pc = "done" => \E content \in rd_seen : rd.result = Rendering(rd.kind, content)

(***************************************************************************)
(* Properties of the renderings.                                           *)
(***************************************************************************)
\* the digit a character stands for
DigitVal(c) == CHOOSE d \in 0..9 : Digits[d + 1] = c

RECURSIVE ParseNat(_)
\* the number a sequence of digits stands for
ParseNat(chars) ==
    IF chars = <<>> THEN 0
    ELSE 10 * ParseNat(SubSeq(chars, 1, Len(chars) - 1)) + DigitVal(chars[Len(chars)])

\* chars is made of digits only
AllDigits(chars) == \A k \in 1..Len(chars) : \E d \in 1..10 : Digits[d] = chars[k]

\* the length of the line of segment i in a transcript
LineLen(i, stamped) == Len(segments[i].text) + (IF stamped THEN 11 ELSE 0)

RECURSIVE LineStart(_, _)
\* the number of characters before the line of segment i in a transcript
LineStart(i, stamped) ==
    IF i = 1 THEN 0 ELSE LineStart(i - 1, stamped) + LineLen(i - 1, stamped) + 1

\* the line of segment i, cut out of the transcript v
LineOf(v, i, stamped) ==
    SubSeq(v, LineStart(i, stamped) + 1, LineStart(i, stamped) + LineLen(i, stamped))

\* line is "[HH:MM:SS] " followed by the text of segment i, HH:MM:SS being the
\* time of day of its timestamp
StampedLine(line, i) ==
    /\ line[1] = "[" /\ line[4] = ":" /\ line[7] = ":" /\ line[10] = "]" /\ line[11] = SP
    /\ AllDigits(SubSeq(line, 2, 3))
    /\ AllDigits(SubSeq(line, 5, 6))
    /\ AllDigits(SubSeq(line, 8, 9))
    /\ ParseNat(SubSeq(line, 2, 3)) < 24
    /\ ParseNat(SubSeq(line, 5, 6)) < 60
    /\ ParseNat(SubSeq(line, 8, 9)) < 60
    /\ ParseNat(SubSeq(line, 2, 3)) * 3600 + ParseNat(SubSeq(line, 5, 6)) * 60
         + ParseNat(SubSeq(line, 8, 9))
       = (segments[i].timestamp \div TicksPerSecond) % 86400
    /\ SubSeq(line, 12, Len(line)) = segments[i].text

\* C25: get_full_transcript returns the empty string for an empty store; else
\* one line per segment, in store order, with one newline between two lines
\* and none at the end; a line is the text of its segment, preceded, with
\* include_timestamps, by "[HH:MM:SS] " of the segment's timestamp.
C25_FullTranscript ==
    out.op = "get_full_transcript" =>
       LET v == out.value
           n == Len(segments)
           stamped == (out.arg = "True")
       IN  IF n = 0 THEN v = <<>>
           ELSE /\ Len(v) = LineStart(n, stamped) + LineLen(n, stamped)
                /\ \A i \in 1..n :
                     /\ i < n => v[LineStart(i + 1, stamped)] = NL
                     /\ IF stamped
                        THEN StampedLine(LineOf(v, i, TRUE), i)
                        ELSE LineOf(v, i, FALSE) = segments[i].text

\* C25 witness: a transcript with timestamps of two segments, the second of
\* which was made on the next day
C25_Witness ==
    /\ out.op = "get_full_transcript"
    /\ out.arg = "True"
    /\ Len(segments) = 2
    /\ segments[1].timestamp = 3599 * TicksPerSecond + 1999
    /\ segments[2].timestamp = (86400 + 3661) * TicksPerSecond + 3
    /\ segments[1].text # segments[2].text
    /\ out.value = <<"[", "0", "0", ":", "5", "9", ":", "5", "9", "]", SP>> \o segments[1].text
                   \o <<NL, "[", "0", "1", ":", "0", "1", ":", "0", "1", "]", SP>>
                   \o segments[2].text

RECURSIVE SplitLines(_)
\* the lines of a text: the runs of characters between its newlines
SplitLines(chars) ==
    IF \A k \in 1..Len(chars) : chars[k] # NL THEN <<chars>>
    ELSE LET k == CHOOSE k \in 1..Len(chars) :
                    chars[k] = NL /\ \A j \in 1..(k - 1) : chars[j] # NL
         IN  <<SubSeq(chars, 1, k - 1)>> \o SplitLines(SubSeq(chars, k + 1, Len(chars)))

\* a timedelta in whole milliseconds, the rest cut off
TruncMs(td) ==
    LET TicksPerMilli == 1000 \div MicrosPerTick
    IN  IF td >= 0 THEN td \div TicksPerMilli ELSE -((-td) \div TicksPerMilli)

\* chars is HH:MM:SS,mmm, with minutes and seconds below 60, and stands for
\* the timedelta td cut to whole milliseconds
IsSrtTime(chars, td) ==
    /\ Len(chars) = 12
    /\ chars[3] = ":" /\ chars[6] = ":" /\ chars[9] = ","
    /\ AllDigits(SubSeq(chars, 1, 2))
    /\ AllDigits(SubSeq(chars, 4, 5))
    /\ AllDigits(SubSeq(chars, 7, 8))
    /\ AllDigits(SubSeq(chars, 10, 12))
    /\ ParseNat(SubSeq(chars, 4, 5)) < 60
    /\ ParseNat(SubSeq(chars, 7, 8)) < 60
    /\ ParseNat(SubSeq(chars, 1, 2)) * 3600000 + ParseNat(SubSeq(chars, 4, 5)) * 60000
         + ParseNat(SubSeq(chars, 7, 8)) * 1000 + ParseNat(SubSeq(chars, 10, 12))
       = TruncMs(td)

\* C26 as claimed: the SRT file of a started engine with n segments has n
\* entries of four lines: the index i, "start --> end" with start = timestamp
\* - start_time and end = start + duration, both as HH:MM:SS,mmm cut to whole
\* milliseconds, the text, and one empty line.
C26_SrtExport ==
    (file.format = "srt" /\ start_time # NoTime) =>
       LET n == Len(segments)
           lines == SplitLines(file.text)
       IN  IF n = 0 THEN file.text = <<>>
           ELSE /\ Len(lines) = 4 * n
                /\ \A i \in 1..n :
                     LET start == segments[i].timestamp - start_time
                         times == lines[4 * i - 2]
                     IN  /\ lines[4 * i - 3] = Dec(i)
                         /\ Len(times) = 29
                         /\ IsSrtTime(SubSeq(times, 1, 12), start)
                         /\ SubSeq(times, 13, 17) = <<SP, "-", "-", ">", SP>>
                         /\ IsSrtTime(SubSeq(times, 18, 29), start + segments[i].duration)
                         /\ lines[4 * i - 1] = segments[i].text
                         /\ lines[4 * i] = <<>>

RECURSIVE DecodeFrom(_, _)
\* the characters of the JSON string chars from position k up to the quotation
\* mark that closes it, and the position after that mark (0 when none closes it)
DecodeFrom(chars, k) ==
    IF k > Len(chars) THEN [text |-> <<>>, next |-> 0]
    ELSE IF chars[k] = "\"" THEN [text |-> <<>>, next |-> k + 1]
    ELSE IF chars[k] = "\\"
    THEN IF k = Len(chars) THEN [text |-> <<>>, next |-> 0]
         ELSE LET rest == DecodeFrom(chars, k + 2)
              IN  [text |-> <<chars[k + 1]>> \o rest.text, next |-> rest.next]
    ELSE LET rest == DecodeFrom(chars, k + 1)
         IN  [text |-> <<chars[k]>> \o rest.text, next |-> rest.next]

\* chars is one JSON string and stands for the characters str
IsJsonString(chars, str) ==
    /\ Len(chars) >= 2
    /\ chars[1] = "\""
    /\ DecodeFrom(chars, 2).next = Len(chars) + 1
    /\ DecodeFrom(chars, 2).text = str

\* chars is an ISO-8601 date and time and stands for the instant ts
IsIsoTime(chars, ts) ==
    /\ Len(chars) \in {19, 26}
    /\ SubSeq(chars, 1, 8) = <<"2", "0", "2", "4", "-", "0", "1", "-">>
    /\ chars[11] = "T" /\ chars[14] = ":" /\ chars[17] = ":"
    /\ AllDigits(SubSeq(chars, 9, 10))
    /\ AllDigits(SubSeq(chars, 12, 13))
    /\ AllDigits(SubSeq(chars, 15, 16))
    /\ AllDigits(SubSeq(chars, 18, 19))
    /\ ParseNat(SubSeq(chars, 9, 10)) >= 1
    /\ ParseNat(SubSeq(chars, 12, 13)) < 24
    /\ ParseNat(SubSeq(chars, 15, 16)) < 60
    /\ ParseNat(SubSeq(chars, 18, 19)) < 60
    /\ Len(chars) = 26 => chars[20] = "." /\ AllDigits(SubSeq(chars, 21, 26))
    /\ LET micro == IF Len(chars) = 26 THEN ParseNat(SubSeq(chars, 21, 26)) ELSE 0
           second == ((ParseNat(SubSeq(chars, 9, 10)) - 1) * 24
                        + ParseNat(SubSeq(chars, 12, 13))) * 3600
                     + ParseNat(SubSeq(chars, 15, 16)) * 60
                     + ParseNat(SubSeq(chars, 18, 19))
       IN  /\ micro % MicrosPerTick = 0
           /\ second * TicksPerSecond + micro \div MicrosPerTick = ts

\* chars is a decimal number of seconds and stands for the duration d
IsSeconds(chars, d) ==
    \E k \in 2..(Len(chars) - 1) :
      /\ chars[k] = "."
      /\ AllDigits(SubSeq(chars, 1, k - 1))
      /\ AllDigits(SubSeq(chars, k + 1, Len(chars)))
      /\ Len(chars) - k <= 4
      /\ LET fraction == SubSeq(chars, k + 1, Len(chars))
                            \o [j \in 1..(4 - (Len(chars) - k)) |-> "0"]
         IN  /\ (ParseNat(fraction) * 100) % MicrosPerTick = 0
             /\ ParseNat(SubSeq(chars, 1, k - 1)) * TicksPerSecond
                  + (ParseNat(fraction) * 100) \div MicrosPerTick = d

\* C27: the JSON file written by export_transcript holds as many segments as
\* the store, and segment i of the file parses back to the text, the timestamp
\* and the duration of segment i of the store.
C27_JsonRoundTrip ==
    file.format = "json" =>
       /\ Len(file.json.segments) = Len(segments)
       /\ \A i \in 1..Len(segments) :
            /\ IsJsonString(file.json.segments[i].text, segments[i].text)
            /\ Len(file.json.segments[i].timestamp) >= 2
            /\ IsIsoTime(DecodeFrom(file.json.segments[i].timestamp, 2).text,
                         segments[i].timestamp)
            /\ DecodeFrom(file.json.segments[i].timestamp, 2).next
                 = Len(file.json.segments[i].timestamp) + 1
            /\ IsSeconds(file.json.segments[i].duration, segments[i].duration)

\* a store of two different segments was written as JSON, the first with a
\* text that needs escaping and a timestamp off the whole second
C27_Witness ==
    /\ file.format = "json"
    /\ out.op = "export_transcript"
    /\ Len(segments) = 2
    /\ segments[1].text = <<CH, SP, "\"", "\\">>
    /\ segments[1].timestamp = 3599 * TicksPerSecond + 1999
    /\ segments[1].duration = 1
    /\ segments[2].text = <<CH>>
    /\ segments[2].timestamp = (86400 + 3661) * TicksPerSecond + 3
    /\ segments[2].duration = 5 * TicksPerSecond

\* C28: a call of export_transcript with a format other than txt, json and srt
\* raises ValueError, leaves the file at the path and the engine (segments,
\* buffer, running flag) as they were, and the call after a failed one, when
\* its format is valid, writes its file.
C28_InvalidFormat ==
    [][(out'.op = "export_transcript" /\ out' # out) =>
         /\ out'.arg \notin {"txt", "json", "srt"} =>
              /\ out'.status = "ValueError"
              /\ file' = file
              /\ UNCHANGED engineVars
         /\ (out.status = "ValueError" /\ out'.arg \in {"txt", "json", "srt"}) =>
              /\ out'.status = "ok"
              /\ file'.format = out'.arg]_vars

\* a call with an unknown format has failed on an engine that holds a segment
\* and has written a JSON file before
C28_Witness ==
    /\ out.op = "export_transcript"
    /\ out.arg = "pdf"
    /\ out.status = "ValueError"
    /\ file.format = "json"
    /\ Len(segments) = 1

(***************************************************************************)
(* Properties of the audio level.                                          *)
(***************************************************************************)
RECURSIVE SquaresHigh(_)
\* the sum of the squares of the samples is SquaresHigh * 65536 + SquaresLow
SquaresHigh(chunk) ==
    IF chunk = <<>> THEN 0
    ELSE (Head(chunk) * Head(chunk)) \div 65536 + SquaresHigh(Tail(chunk))

RECURSIVE SquaresLow(_)
SquaresLow(chunk) ==
    IF chunk = <<>> THEN 0
    ELSE ((Head(chunk) * Head(chunk)) % 65536) + SquaresLow(Tail(chunk))

\* C29 as claimed: get_audio_level returns a number of [0.0, 1.0]: 0.0 without
\* a chunk, else the root of the mean of the squares of the samples of the
\* last chunk, over 32768 (that quotient is never above 1.0, so the clamp
\* leaves it alone).
C29_AudioLevel ==
    level.called =>
       /\ ~level.nan
       /\ level.mean_num >= 0
       /\ level.frames_empty => level.mean_num = 0
       /\ ~level.frames_empty =>
            /\ level.mean_den = Len(level.last_chunk)
            /\ ~level.clamped
            /\ level.mean_num \div 65536
                 = SquaresHigh(level.last_chunk) + SquaresLow(level.last_chunk) \div 65536
            /\ level.mean_num % 65536 = SquaresLow(level.last_chunk) % 65536

(***************************************************************************)
(* Properties of the periodic drain.                                       *)
(***************************************************************************)
\* loop thread t takes the buffer in this step
PeriodicDrain(t) ==
    /\ t \in Loops
    /\ pc[t] = "pb_locked"
    /\ Len(drains') = Len(drains) + 1

\* loop thread u has taken the buffer in the pass it is in
DrainedInPass(u) == pc[u] \in InPass \cup {"set_last"} /\ pass[u].drained

\* C30 as claimed: when a loop thread takes the buffer, the pass it is in
\* began (current_time) at least buffer_duration after last_transcription_time
\* and after start(), the clock has not gone back since, and a pass of another
\* loop thread that has taken the buffer began at least buffer_duration before.
C30_PeriodicDrain ==
    [][\A t \in Loops :
         PeriodicDrain(t) =>
           /\ Due(current_time[t], last_transcription_time)
           /\ Due(now, last_transcription_time)
           /\ current_time[t] - start_time >= buffer_duration
           /\ \A u \in Loops \ {t} :
                DrainedInPass(u) => current_time[t] - current_time[u] >= buffer_duration]_vars

(***************************************************************************)
(* Liveness of the engine.                                                 *)
(***************************************************************************)
\* chunk k is in audio_buffer
Buffered(k) == \E i \in 1..Len(audio_buffer) : ChunkIn(k, audio_buffer[i])

\* C31 as claimed: a chunk that is in the buffer of a running engine is
\* drained in the end (left open when the clock of the model ends on an engine
\* that is still running).
C31_EventuallyDrained ==
    \A k \in 1..MaxChunks :
       (Buffered(k) /\ is_transcribing) ~> (~Buffered(k) \/ (is_transcribing /\ now = MaxTime))

(***************************************************************************)
(* Properties of the audio lost in an outage.                              *)
(***************************************************************************)
\* C32 as claimed: when a pass gives its clip up after the last failed
\* attempt, the clip holds the audio of at most buffer_duration: the drain
\* came no later than buffer_duration after the oldest chunk it took (of the
\* chunks appended since start()).
C32_DropWithinInterval ==
    [][\A d \in dropped' \ dropped :
         span[d.by].since >= start_time =>
            span[d.by].at - span[d.by].since <= buffer_duration]_vars

(***************************************************************************)
(* C33: the analysis loop calls the analysis service at most once per      *)
(* analysis_interval: a call that follows a tick whose service call failed *)
(* is made no sooner than analysis_interval after that failed call (the    *)
(* failed tick is not retried at the next poll).                           *)
(***************************************************************************)
C33_NoRetryWithinInterval ==
    [][\A t \in Loops :
         TickAfterFailure(t) => AnalysisDue(now, an_tick[t].called)]_vars

(***************************************************************************)
(* C34: analysis state does not cross sessions: when start() begins a      *)
(* session after an earlier one, the previous-analysis context and the     *)
(* transcript text of the analyzer are empty.                              *)
(***************************************************************************)
NewAnalysisSession ==
    an_pc[Host] = "start_init" /\ an_pc'[Host] = "idle" /\ an_sessions >= 1

C34_AnalysisStateFresh ==
    [][NewAnalysisSession =>
         (last_analysis' = NoText /\ current_transcript' = <<>>)]_vars

(***************************************************************************)
(* C35: audio does not cross sessions. Once the worker's stop sequence has *)
(* returned (the engine stopped, the recording thread joined by            *)
(* stop_recording()), audio_buffer is empty until the next recording       *)
(* begins, and a segment appended to the store of a session is made of     *)
(* chunks captured in that session only.                                   *)
(***************************************************************************)
StopSequenceDone ==
    /\ ~running
    /\ sessions >= 1
    /\ quiet_since # NoTime
    /\ pc[Host] = "idle"
    /\ audio_pc = "idle"

\* the engine was started for the recording whose worker is running
InSession == running /\ quiet_since = NoTime /\ pc[Host] # "start_init"

AppendsSegment(t) == pc[t] = "append" /\ pc'[t] = "callbacks"

C35_AudioStaysInSession ==
    [][/\ StopSequenceDone => audio_buffer = <<>>
       /\ \A t \in Threads :
            (AppendsSegment(t) /\ InSession) =>
               \A k \in 1..epoch : ~ChunkIn(k, pass[t].clip)]_vars

(***************************************************************************)
(* C36: every segment appended to the store is delivered to the host: when *)
(* a pass, of the loop or of stop(), has appended a segment and the        *)
(* worker's segment callback has returned, the segment has been emitted to *)
(* the window.                                                             *)
(***************************************************************************)
Dispatched(t) == pc[t] = "callbacks" /\ pc'[t] # "callbacks"

HandlerReturned(t) ==
    /\ pass'[t].calls # <<>>
    /\ pass'[t].calls[Len(pass'[t].calls)].outcome = "returned"

C36_SegmentReachesHost ==
    [][\A t \in Threads :
         (Dispatched(t) /\ HandlerReturned(t)) =>
            segment_ready' = segment_ready + 1]_vars

(***************************************************************************)
(* C37: a new analysis is delivered to the host's handler exactly once:    *)
(* the callbacks of the analyzer never hold the same handler twice, and    *)
(* the fan-out of a tick never invokes a handler twice.                    *)
(***************************************************************************)
NoRepeat(seq) == \A i, j \in 1..Len(seq) : seq[i] = seq[j] => i = j

C37_HandlerOnce ==
    /\ NoRepeat(analysis_callbacks)
    /\ \A t \in Loops :
         NoRepeat([i \in 1..Len(an_tick[t].calls) |-> an_tick[t].calls[i].callback])

(***************************************************************************)
(* C38: start() on a running component is a no-op, and start() from Idle   *)
(* is the only transition that records the start time, registers the       *)
(* callback and spawns the thread: the engine, the analyzer and the        *)
(* capture enter the body of start() only with their flag clear, only the  *)
(* body changes the thread, the times, the store and the callbacks, and a  *)
(* start_recording() that finds the capture recording changes none of its  *)
(* fields.                                                                 *)
(***************************************************************************)
EngineStartOnly ==
    /\ (pc'[Host] = "start_init" /\ pc[Host] # "start_init") => ~is_transcribing
    /\ (<<transcription_thread, sessions, segments, start_time,
          last_transcription_time, callbacks>>' #
        <<transcription_thread, sessions, segments, start_time,
          last_transcription_time, callbacks>>) => pc[Host] = "start_init"

AnalyzerStartOnly ==
    /\ (an_pc'[Host] = "start_init" /\ an_pc[Host] # "start_init") => ~is_running
    /\ (<<analysis_thread, an_sessions, last_analysis_time, analysis_callbacks>>' #
        <<analysis_thread, an_sessions, last_analysis_time, analysis_callbacks>>) =>
          an_pc[Host] = "start_init"

CaptureStartOnly ==
    /\ (cap_pc' = "open" /\ cap_pc # "open") => ~is_recording
    /\ (recording_thread' # recording_thread \/ cap_sessions' # cap_sessions
          \/ Len(audio_callbacks') > Len(audio_callbacks)) => cap_pc = "open"
    /\ (start_call' # start_call /\ start_call'.outcome = "ignored") =>
          /\ is_recording
          /\ UNCHANGED <<captureVars, capThreadVars, capHostVars>>

C38_StartOnRunningIsNoOp ==
    [][EngineStartOnly /\ AnalyzerStartOnly /\ CaptureStartOnly]_vars

\* the three components are running, each started from Idle, and the last
\* start_recording() found the capture recording
C38_Witness ==
    /\ is_transcribing /\ sessions >= 1 /\ pc[Host] = "idle"
    /\ is_running /\ an_sessions >= 1 /\ an_pc[Host] = "idle"
    /\ is_recording /\ cap_sessions >= 1 /\ start_call.outcome = "ignored"

(***************************************************************************)
(* C39: the transcript is only appended to or wholly cleared: in every     *)
(* step the segments are unchanged, or extended by one segment at the end  *)
(* (by the append of a pass), or reset to empty (by the assignment of a    *)
(* new list in start() and clear_segments()); no segment is modified,      *)
(* removed on its own or reordered, in the store or in a list it was.      *)
(***************************************************************************)
ExtendedByOne(old, new) ==
    Len(new) = Len(old) + 1 /\ SubSeq(new, 1, Len(old)) = old

C39_AppendOrClear ==
    [][/\ \/ segments' = segments
          \/ ExtendedByOne(segments, segments') /\ ap_ref = segments_ref
          \/ segments' = <<>> /\ segments_ref' # segments_ref
       /\ \A r \in 1..MaxLists :
            lists'[r] = lists[r] \/ (ExtendedByOne(lists[r], lists'[r]) /\ ap_ref = r)]_vars

\* segments were appended, the store was cleared, and a segment was appended
\* to the new list
C39_Witness ==
    /\ segments_ref >= 2
    /\ Len(segments) >= 1
    /\ made > Len(segments)

(***************************************************************************)
(* C40: a failed start leaves the capture unchanged: once start_recording  *)
(* has raised because the stream could not be opened, is_recording is      *)
(* False, there is no recording thread and the callback is not registered; *)
(* and outside start_recording, is_recording is True only while a          *)
(* recording loop thread is alive.                                         *)
(***************************************************************************)
RecordingThreadAlive ==
    recording_thread # 0 /\ rec_pc[recording_thread] \notin {"unborn", "dead"}

C40_FailedStartLeavesIdle ==
    /\ (cap_pc = "idle" /\ start_call.outcome = "raised") =>
          (~is_recording /\ ~RecordingThreadAlive /\ audio_callbacks = <<>>)
    /\ (cap_pc = "idle" /\ is_recording) => RecordingThreadAlive

====
